---- MODULE Spec2Model ----
(***************************************************************************)
(* A model of heudiconv's series grouping (group_dicoms_into_seqinfos) and *)
(* of its conversion-plan cache (convert_dicoms), src/heudiconv/utils.py.  *)
(*                                                                         *)
(* A DICOM dataset is a function from the names of the attributes it holds *)
(* to their values: an attribute that is missing is not in its DOMAIN, so  *)
(* `dcm_data.X` raises AttributeError exactly when X \notin DOMAIN and     *)
(* `dcm_data.get(X)` yields None there.  A file name is a number.  The     *)
(* same-series predicate of the wrapper library (mw.is_same_series) is     *)
(* not part of the sources: it is an input, the relation `same`.           *)
(***************************************************************************)
EXTENDS Integers, Sequences, FiniteSets, TLC

VARIABLES
    files,      \* group_dicoms_into_seqinfos: the `files` argument (a list of file names)
    dicom,      \* what is read from each file: dcm_data, image_shape, the filters' answers
    same,       \* the same-series predicate: the set of pairs {f1, f2} for which it holds
    grouping,   \* the `grouping` argument
    pc,         \* where the call of group_dicoms_into_seqinfos stands
    loop,       \* its local variables: fidx, groups, mwgroup, studyUID, and the exception raised
    seqinfo,    \* the map it returns
    disk,       \* convert_dicoms: the files of one subject/session under idir
    run,        \* what the last call of convert_dicoms did
    args,       \* get_study_sessions, process_args: the arguments of the call
    batch       \* what the call has done: study_sessions, temporary directories, exception

vars == <<files, dicom, same, grouping, pc, loop, seqinfo, disk, run, args, batch>>

\* ------------------------------------------------------------------ bounds

\* the longest list of files given to one call
MaxFiles == 4

\* the longest list of the calls that are explored under every predicate with
\* one file more as well
MaxFilesSmall == 3

\* the longest list of files whose orderings are compared
MaxShuffled == 3

\* ------------------------------------------------------------------ values

\* Python's None, where a string may stand
None == "None"

\* mw.image_shape is None
NoShape == <<>>

\* no exception raised
NoError == ""

\* the strings of the model in Python's order of comparison (None sorts first in
\* Python 2; upper case before lower case)
StrOrder == <<"None", "1.2.1", "1.2.2", "1.2.3", "A1", "A2", "BOLD", "T1w", "none">>

StrRank(s) == CHOOSE i \in 1..Len(StrOrder) : StrOrder[i] = s

\* dcm_data.get(name, None)
Get(dcm_data, name) == IF name \in DOMAIN dcm_data THEN dcm_data[name] ELSE None

Has(dcm_data, name) == name \in DOMAIN dcm_data

\* mw.is_same_series(other), for the wrappers of files f and g
is_same_series(f, g) == f = g \/ {f, g} \in same

\* the storage classes whose files are not image data
NonImageStorage == {"Raw Data Storage", "GrayscaleSoftcopyPresentationStateStorage"}

allowed_groupings == {"studyUID", "accession_number", None}

per_studyUID == grouping = "studyUID"

per_accession_number == grouping = "accession_number"

\* list(filter(file_filter, files))
RECURSIVE FilterFiles(_)
FilterFiles(fl) ==
    IF fl = <<>> THEN <<>>
    ELSE IF dicom[Head(fl)].filter_files
         THEN <<Head(fl)>> \o FilterFiles(Tail(fl))
         ELSE FilterFiles(Tail(fl))

\* ------------------------------------------------- the loop over the files

\* the series id of one file where records of any study are accepted in
\* every grouping mode
OwnSeriesIdAnyStudy(f, studyUID) ==
    LET d == dicom[f].dcm_data
        ident == Has(d, "SeriesNumber") /\ Has(d, "ProtocolName")
                 /\ Has(d, "StudyInstanceUID")
        study1 == IF ident /\ ~per_studyUID /\ studyUID = None
                  THEN d["StudyInstanceUID"] ELSE studyUID
        sid0 == IF ident THEN <<d["SeriesNumber"], d["ProtocolName"]>>
                ELSE <<-1, "none">>
        uid0 == IF ident THEN d["StudyInstanceUID"] ELSE None
        sid1 == IF sid0[1] >= 0 /\ dicom[f].filter_dicom
                THEN <<-1, d["ProtocolName"]>> ELSE sid0
        sid2 == IF sid1[1] >= 0 /\ Has(d, "SOPClassUID")
                   /\ d["SOPClassUID"] \in NonImageStorage
                THEN <<-1, d["ProtocolName"]>> ELSE sid1
        sid3 == IF per_studyUID THEN sid2 \o <<uid0>> ELSE sid2
    IN  IF sid1[1] >= 0 /\ ~Has(d, "SOPClassUID")
        THEN [series_id |-> sid1, file_studyUID |-> uid0, studyUID |-> study1,
              err |-> "KeyError"]
        ELSE [series_id |-> sid3, file_studyUID |-> uid0, studyUID |-> study1,
              err |-> NoError]

\* The series id of one file before it is compared with the clusters, as
\* [series_id, file_studyUID, studyUID, err].
OwnSeriesId(f, studyUID) ==
    LET d == dicom[f].dcm_data
        ident == Has(d, "SeriesNumber") /\ Has(d, "ProtocolName")
                 /\ Has(d, "StudyInstanceUID")
        study1 == IF ident /\ ~per_studyUID /\ studyUID = None
                  THEN d["StudyInstanceUID"] ELSE studyUID
        sid0 == IF ident THEN <<d["SeriesNumber"], d["ProtocolName"]>>
                ELSE <<-1, "none">>
        uid0 == IF ident THEN d["StudyInstanceUID"] ELSE None
        sid1 == IF sid0[1] >= 0 /\ dicom[f].filter_dicom
                THEN <<-1, d["ProtocolName"]>> ELSE sid0
        sid2 == IF sid1[1] >= 0 /\ Has(d, "SOPClassUID")
                   /\ d["SOPClassUID"] \in NonImageStorage
                THEN <<-1, d["ProtocolName"]>> ELSE sid1
        sid3 == IF per_studyUID THEN sid2 \o <<uid0>> ELSE sid2
    IN  IF ident /\ ~per_studyUID /\ studyUID # None /\ ~per_accession_number
           /\ studyUID # d["StudyInstanceUID"]
        THEN [series_id |-> sid0, file_studyUID |-> uid0, studyUID |-> studyUID,
              err |-> "AssertionError"]
        ELSE IF sid1[1] >= 0 /\ ~Has(d, "SOPClassUID")
        THEN [series_id |-> sid1, file_studyUID |-> uid0, studyUID |-> study1,
              err |-> "KeyError"]
        ELSE [series_id |-> sid3, file_studyUID |-> uid0, studyUID |-> study1,
              err |-> NoError]

\* One pass of `for idx in range(len(mwgroup))` and the passes after it, for
\* file f; st is [series_id, ingrp, groups0, groups1, err].
RECURSIVE MatchLoop(_, _, _, _, _)
MatchLoop(idx, f, file_studyUID, mwgroup, st) ==
    IF idx > Len(mwgroup) \/ st.err # NoError THEN st
    ELSE IF ~is_same_series(f, mwgroup[idx])
    THEN MatchLoop(idx + 1, f, file_studyUID, mwgroup, st)
    ELSE LET rep == dicom[mwgroup[idx]].dcm_data
         IN  IF Get(rep, "StudyInstanceUID") # file_studyUID
             THEN [st EXCEPT !.err = "AssertionError"]
             ELSE IF st.series_id[1] >= 0
                     /\ ~(Has(rep, "SeriesNumber") /\ Has(rep, "ProtocolName"))
             THEN [st EXCEPT !.err = "AttributeError"]
             ELSE LET sid == IF st.series_id[1] >= 0
                             THEN <<rep["SeriesNumber"], rep["ProtocolName"]>>
                                  \o (IF per_studyUID THEN <<file_studyUID>> ELSE <<>>)
                             ELSE st.series_id
                  IN  MatchLoop(idx + 1, f, file_studyUID, mwgroup,
                          [series_id |-> sid, ingrp |-> TRUE,
                           groups0 |-> Append(st.groups0, sid),
                           groups1 |-> Append(st.groups1, idx),
                           err |-> NoError])

\* The body of `for fidx, filename in enumerate(files)` for file f; g is
\* [groups0, groups1, mwgroup, studyUID, err].
LoopBody(g, f) ==
    LET own == OwnSeriesId(f, g.studyUID)
        st == MatchLoop(1, f, own.file_studyUID, g.mwgroup,
                  [series_id |-> own.series_id, ingrp |-> FALSE,
                   groups0 |-> g.groups0, groups1 |-> g.groups1, err |-> NoError])
    IN  IF ~dicom[f].readable THEN [g EXCEPT !.err = "IOError"]
        ELSE IF own.err # NoError THEN [g EXCEPT !.err = own.err]
        ELSE IF st.err # NoError THEN [g EXCEPT !.err = st.err]
        ELSE IF st.ingrp
        THEN [g EXCEPT !.groups0 = st.groups0, !.groups1 = st.groups1,
                       !.studyUID = own.studyUID]
        ELSE [g EXCEPT !.groups0 = Append(st.groups0, st.series_id),
                       !.groups1 = Append(st.groups1, Len(g.mwgroup) + 1),
                       !.mwgroup = Append(g.mwgroup, f),
                       !.studyUID = own.studyUID]

LoopStart == [groups0 |-> <<>>, groups1 |-> <<>>, mwgroup |-> <<>>,
              studyUID |-> None, err |-> NoError]

\* the whole loop over the list fl, from the state g
RECURSIVE GroupLoop(_, _)
GroupLoop(g, fl) ==
    IF fl = <<>> \/ g.err # NoError THEN g
    ELSE GroupLoop(LoopBody(g, Head(fl)), Tail(fl))

\* ------------------------------------------------ the map that is returned

\* a comparison that looks at the protocol name before the series number
KeyLessByName(a, b) ==
    \/ StrRank(a[2]) < StrRank(b[2])
    \/ a[2] = b[2] /\ a[1] < b[1]
    \/ a[1] = b[1] /\ a[2] = b[2] /\ Len(a) > 2 /\ StrRank(a[3]) < StrRank(b[3])

\* series_id tuples in Python's order of comparison (tuples of int, str[, str])
KeyLess(a, b) ==
    \/ a[1] < b[1]
    \/ a[1] = b[1] /\ StrRank(a[2]) < StrRank(b[2])
    \/ a[1] = b[1] /\ a[2] = b[2] /\ Len(a) > 2 /\ StrRank(a[3]) < StrRank(b[3])

\* sorted(...) of a set of series ids
RECURSIVE SortedKeys(_)
SortedKeys(S) ==
    IF S = {} THEN <<>>
    ELSE LET k == CHOOSE x \in S : \A y \in S \ {x} : KeyLess(x, y)
         IN  <<k>> \o SortedKeys(S \ {k})

\* the keys of group_map = dict(zip(groups[0], groups[1]))
GroupMapKeys(g) == {g.groups0[i] : i \in 1..Len(g.groups0)}

\* group_map[k]: the last value zipped with k
GroupMap(g, k) ==
    LET last == CHOOSE i \in 1..Len(g.groups0) :
                   /\ g.groups0[i] = k
                   /\ \A j \in (i + 1)..Len(g.groups0) : g.groups0[j] # k
    IN  g.groups1[last]

\* the positions i of groups[0] with groups[0][i] = k, ascending, from position i on
RECURSIVE KeyPositions(_, _, _)
KeyPositions(g, k, i) ==
    IF i > Len(g.groups0) THEN <<>>
    ELSE IF g.groups0[i] = k THEN <<i>> \o KeyPositions(g, k, i + 1)
         ELSE KeyPositions(g, k, i + 1)

\* [files[i] for i, s in enumerate(groups[0]) if s == series_id]
SeriesFiles(g, fl, k) ==
    LET pos == KeyPositions(g, k, 1)
    IN  [n \in 1..Len(pos) |-> fl[pos[n]]]

\* '-'.join(map(str, series_id)) of the first two components
SeriesIdStr(k) == ToString(k[1]) \o "-" \o k[2]

\* a SeqInfo whose file counter counts the files of its own series only
MakeSeqInfoOwnCount(k, rep, sf, total) ==
    LET d == dicom[rep].dcm_data
        size == dicom[rep].image_shape \o <<Len(sf)>>
        size4 == IF Len(size) < 4 THEN Append(size, 1) ELSE size
    IN  [total_files_till_now |-> Len(sf),
         example_dcm_file |-> sf[1],
         series_id |-> SeriesIdStr(k),
         dim1 |-> size4[1], dim2 |-> size4[2], dim3 |-> size4[3], dim4 |-> size4[4],
         TR |-> IF Has(d, "RepetitionTime") THEN d["RepetitionTime"] \div 1000 ELSE -1,
         TE |-> IF Has(d, "EchoTime") THEN d["EchoTime"] ELSE -1,
         protocol_name |-> d["ProtocolName"],
         referring_physician_name |->
             IF Has(d, "ReferringPhysicianName") THEN d["ReferringPhysicianName"] ELSE "-",
         series_description |-> Get(d, "SeriesDescription"),
         image_type |-> d["ImageType"],
         accession_number |-> Get(d, "AccessionNumber")]

\* the SeqInfo of the series with key k, representative file rep, files sf
MakeSeqInfo(k, rep, sf, total) ==
    LET d == dicom[rep].dcm_data
        size == dicom[rep].image_shape \o <<Len(sf)>>
        size4 == IF Len(size) < 4 THEN Append(size, 1) ELSE size
    IN  [total_files_till_now |-> total,
         example_dcm_file |-> sf[1],
         series_id |-> SeriesIdStr(k),
         dim1 |-> size4[1], dim2 |-> size4[2], dim3 |-> size4[3], dim4 |-> size4[4],
         TR |-> IF Has(d, "RepetitionTime") THEN d["RepetitionTime"] \div 1000 ELSE -1,
         TE |-> IF Has(d, "EchoTime") THEN d["EchoTime"] ELSE -1,
         protocol_name |-> d["ProtocolName"],
         referring_physician_name |->
             IF Has(d, "ReferringPhysicianName") THEN d["ReferringPhysicianName"] ELSE "-",
         series_description |-> Get(d, "SeriesDescription"),
         image_type |-> d["ImageType"],
         accession_number |-> Get(d, "AccessionNumber")]

\* `for series_id, mwidx in sorted(group_map.items())`, over the sorted keys ks;
\* acc is [total, entries, err]; an entry is [key, info, files] where key is
\* the key of the outer map ("" when the map is flat).
RECURSIVE BuildSeqinfo(_, _, _, _)
BuildSeqinfo(g, fl, ks, acc) ==
    IF ks = <<>> \/ acc.err # NoError THEN acc
    ELSE LET k == Head(ks)
             rep == g.mwgroup[GroupMap(g, k)]
             pos == KeyPositions(g, k, 1)
         IN  IF k[1] < 0 \/ dicom[rep].image_shape = NoShape
             THEN BuildSeqinfo(g, fl, Tail(ks), acc)
             ELSE IF \E n \in 1..Len(pos) : pos[n] > Len(fl)
             THEN [acc EXCEPT !.err = "IndexError"]
             ELSE IF ~(Has(dicom[rep].dcm_data, "ImageType")
                       /\ Has(dicom[rep].dcm_data, "SeriesDescription"))
             THEN [acc EXCEPT !.err = "AttributeError"]
             ELSE LET sf == SeriesFiles(g, fl, k)
                      total == acc.total + Len(sf)
                      info == MakeSeqInfo(k, rep, sf, total)
                      key == IF per_studyUID THEN k[3]
                             ELSE IF per_accession_number THEN info.accession_number
                             ELSE ""
                  IN  BuildSeqinfo(g, fl, Tail(ks),
                          [total |-> total,
                           entries |-> Append(acc.entries,
                               [key |-> key, info |-> info, files |-> sf]),
                           err |-> NoError])

\* The code after the loop: the returned map, or the exception.
Collect(g, fl) ==
    BuildSeqinfo(g, fl, SortedKeys(GroupMapKeys(g)),
                 [total |-> 0, entries |-> <<>>, err |-> NoError])

\* group_dicoms_into_seqinfos(files, file_filter, dcmfilter, grouping) as a
\* function of its arguments: [entries, err].
group_dicoms_into_seqinfos(fl) ==
    IF grouping \notin allowed_groupings
    THEN [entries |-> <<>>, err |-> "ValueError"]
    ELSE LET kept == FilterFiles(fl)
             g == GroupLoop(LoopStart, kept)
             r == Collect(g, kept)
         IN  IF g.err # NoError THEN [entries |-> <<>>, err |-> g.err]
             ELSE IF r.err # NoError THEN [entries |-> <<>>, err |-> r.err]
             ELSE [entries |-> r.entries, err |-> NoError]

\* the keys of the outer map, in the order of their insertion
RECURSIVE OuterKeys(_)
OuterKeys(entries) ==
    IF entries = <<>> THEN <<>>
    ELSE LET before == OuterKeys(SubSeq(entries, 1, Len(entries) - 1))
             k == entries[Len(entries)].key
         IN  IF \E i \in 1..Len(before) : before[i] = k THEN before
             ELSE Append(before, k)

\* seqinfo[key]: the entries of one outer key, in the order of their insertion
RECURSIVE Bucket(_, _)
Bucket(entries, key) ==
    IF entries = <<>> THEN <<>>
    ELSE IF Head(entries).key = key
         THEN <<Head(entries)>> \o Bucket(Tail(entries), key)
         ELSE Bucket(Tail(entries), key)

\* --------------------------------------------------------------- the inputs

\* The attributes a dataset may hold, with their values.
Dataset(sn, pn, uid, acc, sop, series) ==
    [SeriesNumber |-> sn, ProtocolName |-> pn, StudyInstanceUID |-> uid,
     AccessionNumber |-> acc, SOPClassUID |-> sop, SeriesInstanceUID |-> series,
     RepetitionTime |-> 2000, EchoTime |-> 30, ReferringPhysicianName |-> "Dr",
     SeriesDescription |-> "desc", ImageType |-> <<"ORIGINAL", "PRIMARY">>]

AllAttrs == {"SeriesNumber", "ProtocolName", "StudyInstanceUID",
             "AccessionNumber", "SOPClassUID", "SeriesInstanceUID",
             "RepetitionTime", "EchoTime", "ReferringPhysicianName",
             "SeriesDescription", "ImageType"}

\* A file as the wrapper library reads it: the dataset holds the attributes
\* `has` of v; filter_files and filter_dicom are the answers of the heuristic's
\* file_filter (keep the file) and dcmfilter (exclude the record).
Wrapper(v, has, shape, keep, flagged) ==
    [dcm_data |-> [a \in has |-> v[a]],
     image_shape |-> shape,
     filter_files |-> keep,
     filter_dicom |-> flagged,
     readable |-> TRUE]

\* a file that dcm.read_file cannot read
Unreadable ==
    [Wrapper(Dataset(2, "T1w", "1.2.1", "A1", "MR Image Storage", "S"),
             {}, NoShape, TRUE, FALSE) EXCEPT !.readable = FALSE]

\* an image of series (sn, pn) in study uid with accession number acc
Image(sn, pn, uid, acc) ==
    Wrapper(Dataset(sn, pn, uid, acc, "MR Image Storage", "S"),
            AllAttrs, <<64, 64>>, TRUE, FALSE)

\* The records a file may hold.
Records ==
    {Image(2, "T1w", "1.2.1", "A1"), Image(10, "BOLD", "1.2.1", "A1"),
     Image(2, "T1w", "1.2.2", "A2"),
     \* excluded by the heuristic's dcmfilter
     Wrapper(Dataset(10, "BOLD", "1.2.1", "A1", "MR Image Storage", "S"),
             AllAttrs, <<64, 64>>, TRUE, TRUE),
     \* not image data
     Wrapper(Dataset(2, "T1w", "1.2.2", "A2", "Raw Data Storage", "S"),
             AllAttrs, <<64, 64>>, TRUE, FALSE),
     \* no series number: not identifiable
     Wrapper(Dataset(0, "T1w", "1.2.1", "A1", "MR Image Storage", "S"),
             AllAttrs \ {"SeriesNumber"}, <<64, 64>>, TRUE, FALSE),
     \* no image shape
     Wrapper(Dataset(1, "T1w", "1.2.1", "A1", "MR Image Storage", "S"),
             AllAttrs, NoShape, TRUE, FALSE)}

Pairs(n) == {{a, b} : a \in 1..n, b \in 1..n} \ {{a} : a \in 1..n}

Idle == [groups0 |-> <<>>, groups1 |-> <<>>, mwgroup |-> <<>>,
         studyUID |-> None, err |-> NoError, fidx |-> 0, kept |-> <<>>]

NoRun == [started |-> FALSE]

NoArgs == [given |-> FALSE]

NoBatch == [stage |-> "idle"]

\* the variables of a call of group_dicoms_into_seqinfos about to start
CallStarts ==
    /\ pc = "start"
    /\ loop = Idle
    /\ seqinfo = <<>>
    /\ disk = <<>>
    /\ run = NoRun
    /\ args = NoArgs
    /\ batch = NoBatch

\* any list of at most maxn files of the records of pool, under any predicate
AnyInput(maxn, pool) ==
    /\ \E n \in 0..maxn :
          /\ files = [i \in 1..n |-> i]
          /\ dicom \in [1..n -> pool]
          /\ same \in SUBSET Pairs(n)
    /\ grouping \in allowed_groupings

\* a call of group_dicoms_into_seqinfos about to start, on any input
InitGroup == AnyInput(MaxFiles, Records) /\ CallStarts

\* the same on shorter lists
InitGroupSmall == AnyInput(MaxFilesSmall, Records) /\ CallStarts

\* -------------------------------------- group_dicoms_into_seqinfos, stepwise

\* lines 332-354: the check of `grouping`, and file_filter
GroupStart ==
    /\ pc = "start"
    /\ IF grouping \notin allowed_groupings
       THEN /\ pc' = "raised"
            /\ loop' = [loop EXCEPT !.err = "ValueError"]
       ELSE /\ pc' = "loop"
            /\ loop' = LoopStart @@ [fidx |-> 1, kept |-> FilterFiles(files)]
    /\ UNCHANGED <<files, dicom, same, grouping, seqinfo, disk, run, args, batch>>

\* lines 355-435: one pass of the loop over the files
GroupFile ==
    /\ pc = "loop"
    /\ loop.fidx <= Len(loop.kept)
    /\ LET g == LoopBody(loop, loop.kept[loop.fidx])
       IN  /\ loop' = [g EXCEPT !.fidx = loop.fidx + 1]
           /\ pc' = IF g.err # NoError THEN "raised" ELSE "loop"
    /\ UNCHANGED <<files, dicom, same, grouping, seqinfo, disk, run, args, batch>>

\* lines 437-558: the map is built and returned
GroupReturn ==
    /\ pc = "loop"
    /\ loop.fidx > Len(loop.kept)
    /\ LET r == Collect(loop, loop.kept)
       IN  /\ loop' = [loop EXCEPT !.err = r.err]
           /\ pc' = IF r.err # NoError THEN "raised" ELSE "done"
           /\ seqinfo' = IF r.err # NoError THEN <<>> ELSE r.entries
    /\ UNCHANGED <<files, dicom, same, grouping, disk, run, args, batch>>

NextGroup == GroupStart \/ GroupFile \/ GroupReturn

SpecGroup == InitGroup /\ [][NextGroup]_vars

SpecGroupSmall == InitGroupSmall /\ [][NextGroup]_vars

\* Records of one study that all have an image shape, a series number and a
\* protocol name; some are dropped or excluded by a filter or by their storage
\* class, one holds no storage class, one no image type.
StudyRecords ==
    {Image(2, "T1w", "1.2.1", "A1"), Image(10, "BOLD", "1.2.1", "A1"),
     Image(2, "BOLD", "1.2.1", "A1"),
     Wrapper(Dataset(10, "BOLD", "1.2.1", "A1", "MR Image Storage", "S"),
             AllAttrs, <<64, 64>>, TRUE, TRUE),
     Wrapper(Dataset(2, "T1w", "1.2.1", "A1", "Raw Data Storage", "S"),
             AllAttrs, <<64, 64>>, TRUE, FALSE),
     Wrapper(Dataset(2, "T1w", "1.2.1", "A1", "MR Image Storage", "S"),
             AllAttrs, <<64, 64>>, FALSE, FALSE),
     Wrapper(Dataset(10, "BOLD", "1.2.1", "A1", "MR Image Storage", "S"),
             AllAttrs \ {"SOPClassUID"}, <<64, 64>>, TRUE, FALSE),
     Wrapper(Dataset(2, "BOLD", "1.2.1", "A1", "MR Image Storage", "S"),
             AllAttrs \ {"ImageType"}, <<64, 64>>, TRUE, FALSE)}

\* the (seriesNumber, protocolName) of a file that holds both
PairOf(f) == <<dicom[f].dcm_data["SeriesNumber"], dicom[f].dcm_data["ProtocolName"]>>

\* a call with grouping disabled on records of one study, under the predicate
\* that holds exactly between records of the same (seriesNumber, protocolName)
InitPairs ==
    /\ \E n \in 0..MaxFiles :
          /\ files = [i \in 1..n |-> i]
          /\ dicom \in [1..n -> StudyRecords]
    /\ same = {pr \in Pairs(Len(files)) : \A f \in pr : \A h \in pr : PairOf(f) = PairOf(h)}
    /\ grouping = None
    /\ CallStarts

SpecPairs == InitPairs /\ [][NextGroup]_vars

\* a record of study 1.2.1 whose true series is `series`
OfSeries(sn, pn, series, has, shape, flagged) ==
    Wrapper(Dataset(sn, pn, "1.2.1", "A1", "MR Image Storage", series),
            has, shape, TRUE, flagged)

\* Records of two true series (the SeriesInstanceUID, which the grouping never
\* reads): series that share a key, a series whose records disagree on the
\* key, records without shape, flagged, not identifiable.
ShuffleRecords ==
    {OfSeries(2, "T1w", "S1", AllAttrs, <<64, 64>>, FALSE),
     OfSeries(2, "T1w", "S2", AllAttrs, <<64, 64>>, FALSE),
     OfSeries(10, "BOLD", "S1", AllAttrs, <<64, 64>>, FALSE),
     OfSeries(10, "BOLD", "S2", AllAttrs, <<64, 64>>, FALSE),
     OfSeries(2, "T1w", "S1", AllAttrs, NoShape, FALSE),
     OfSeries(2, "T1w", "S1", AllAttrs, <<64, 64>>, TRUE),
     OfSeries(2, "T1w", "S1", AllAttrs \ {"SeriesNumber"}, <<64, 64>>, FALSE)}

TrueSeries(f) == dicom[f].dcm_data["SeriesInstanceUID"]

\* the pairs of files of the same true series
Within(n) == {pr \in Pairs(n) : \A f \in pr : \A h \in pr : TrueSeries(f) = TrueSeries(h)}

\* a call on records of true series, under any predicate that never holds
\* between records of different true series
InitShuffle ==
    /\ \E n \in 0..MaxShuffled :
          /\ files = [i \in 1..n |-> i]
          /\ dicom \in [1..n -> ShuffleRecords]
    /\ same \in SUBSET Within(Len(files))
    /\ grouping \in allowed_groupings
    /\ CallStarts

SpecShuffle == InitShuffle /\ [][NextGroup]_vars

\* an image of study 1.2.1 whose dataset lacks the attribute a
Lacking(sn, pn, a) ==
    Wrapper(Dataset(sn, pn, "1.2.1", "A1", "MR Image Storage", "S"),
            AllAttrs \ {a}, <<64, 64>>, TRUE, FALSE)

\* the fields a SeqInfo describes a series with, and the storage class
DescriptiveFields ==
    {"RepetitionTime", "EchoTime", "ReferringPhysicianName",
     "SeriesDescription", "ImageType", "SOPClassUID"}

\* Records of one study that lack one attribute, or cannot be read.
FieldRecords ==
    {Image(2, "T1w", "1.2.1", "A1"), Image(10, "BOLD", "1.2.1", "A1"), Unreadable,
     Lacking(10, "BOLD", "StudyInstanceUID")}
    \cup {Lacking(2, "T1w", a) : a \in DescriptiveFields}

\* a call on such records
InitFields == AnyInput(MaxFilesSmall, FieldRecords) /\ CallStarts

SpecFields == InitFields /\ [][NextGroup]_vars

\* ------------------------------------------------------------ the plan cache

\* A text file is [ok, entries]: ok says whether the text can be parsed, entries
\* are its items in the order of the text.
Text(entries) == [ok |-> TRUE, entries |-> entries]

Garbled == [ok |-> FALSE, entries |-> <<>>]

\* the order of Python on the first parts of the templates
TemplateOrder == <<"anat/T1w", "func/bold_run", "func/rest_">>

\* the order of Python on the series ids
SeriesIdOrder == <<"10-BOLD", "10-T1w", "2-BOLD", "2-T1w", "7-DWI">>

RankIn(order, s) == CHOOSE i \in 1..Len(order) : order[i] = s

\* the place of a key in the order of Python: a key of the plan is
\* (template, outtype, annotation_classes), a template being the sequence of
\* its literal parts and its {placeholders}; a key of the filegroup is a
\* series id
KeyRank(by, key) ==
    IF by = "template" THEN RankIn(TemplateOrder, key[1][1])
    ELSE RankIn(SeriesIdOrder, key)

\* insert the item e = <<key, value>> into the sequence s sorted by key
RECURSIVE InsertSorted(_, _, _)
InsertSorted(e, s, by) ==
    IF s = <<>> THEN <<e>>
    ELSE IF KeyRank(by, e[1]) < KeyRank(by, Head(s)[1]) THEN <<e>> \o s
    ELSE <<Head(s)>> \o InsertSorted(e, Tail(s), by)

\* the items of the dict d (a sequence of <<key, value>>), sorted by key
RECURSIVE SortedItems(_, _)
SortedItems(d, by) ==
    IF d = <<>> THEN <<>>
    ELSE InsertSorted(Head(d), SortedItems(Tail(d), by), by)

\* write_config: PrettyPrinter().pformat(info) prints a dict sorted by key
write_config(info) == Text(SortedItems(info, "template"))

\* read_config: eval of the text; [info, err]
read_config(text) ==
    IF text.ok THEN [info |-> text.entries, err |-> NoError]
    ELSE [info |-> <<>>, err |-> "SyntaxError"]

\* save_json: json dumps with sort_keys=True
save_json(data) == Text(SortedItems(data, "series_id"))

\* load_json of the file `name` of the directory d; [data, err]
load_json(d, name) ==
    IF name \notin DOMAIN d THEN [data |-> <<>>, err |-> "IOError"]
    ELSE IF ~d[name].ok THEN [data |-> <<>>, err |-> "ValueError"]
    ELSE [data |-> d[name].entries, err |-> NoError]

\* the dict d (a sequence of <<key, value>>) has the key k
HasKey(d, k) == \E i \in 1..Len(d) : d[i][1] = k

Lookup(d, k) == d[CHOOSE i \in 1..Len(d) : d[i][1] = k][2]

\* the keys of two heuristics
t1w == <<<<"anat/T1w">>, "nii.gz", None>>

bold == <<<<"func/bold_run", "{item}">>, "nii.gz", None>>

Heuristics == {"by_protocol", "t1w_only"}

\* the series ids of the seqinfos of one protocol, in the order of the list
RECURSIVE OfProtocol(_, _)
OfProtocol(seqinfo_list, pn) ==
    IF seqinfo_list = <<>> THEN <<>>
    ELSE (IF Head(seqinfo_list).protocol_name = pn
          THEN <<Head(seqinfo_list).series_id>> ELSE <<>>)
         \o OfProtocol(Tail(seqinfo_list), pn)

\* heuristic.infotodict(seqinfo_list): a dict in the order of its insertions
infotodict(heuristic, seqinfo_list) ==
    IF heuristic = "by_protocol"
    THEN <<<<bold, OfProtocol(seqinfo_list, "BOLD")>>,
           <<t1w, OfProtocol(seqinfo_list, "T1w")>>>>
    ELSE <<<<t1w, OfProtocol(seqinfo_list, "T1w")>>>>

\* An item of a plan as conversion_info takes it: a series id, a dict that
\* holds the series id under 'item' beside parameters of its own, or a list
\* of such items.
Series(id) == [kind |-> "str", item |-> id, parameters |-> <<>>, group |-> <<>>]

DictItem(id, parameters) ==
    [kind |-> "dict", item |-> id, parameters |-> parameters, group |-> <<>>]

ItemGroup(group) == [kind |-> "list", item |-> "", parameters |-> <<>>, group |-> group]

\* the plan `info` of series ids, as conversion_info takes it
OfSeriesIds(info) ==
    [n \in 1..Len(info) |->
        <<info[n][1], [i \in 1..Len(info[n][2]) |-> Series(info[n][2][i])]>>]

\* the name a part of a template stands for, "" for literal text
FieldOf(part) ==
    CASE part = "{item}" -> "item"
      [] part = "{subindex}" -> "subindex"
      [] part = "{subject}" -> "subject"
      [] part = "{seqitem}" -> "seqitem"
      [] part = "{session}" -> "session"
      [] part = "{acq}" -> "acq"
      [] OTHER -> ""

\* template.format(**parameters); [text, err]
RECURSIVE Format(_, _)
Format(template, parameters) ==
    IF template = <<>> THEN [text |-> "", err |-> NoError]
    ELSE LET part == Head(template)
             rest == Format(Tail(template), parameters)
             here == IF FieldOf(part) = "" THEN part
                     ELSE IF FieldOf(part) \in {"item", "subindex"}
                     THEN ToString(parameters[FieldOf(part)])
                     ELSE parameters[FieldOf(part)]
         IN  IF FieldOf(part) # "" /\ FieldOf(part) \notin DOMAIN parameters
             THEN [text |-> "", err |-> "KeyError"]
             ELSE IF rest.err # NoError THEN rest
             ELSE [text |-> here \o rest.text, err |-> NoError]

\* lines 587-607: the parameters of one item, its own ones updated with the
\* helper ones; ses is None
Parameters(subject, idx, subindex, item) ==
    [item |-> idx, subject |-> subject, seqitem |-> item.item,
     subindex |-> subindex, session |-> "ses-None",
     bids_subject_session_prefix |-> "sub-" \o subject,
     bids_subject_session_dir |-> "sub-" \o subject]
    @@ item.parameters

\* the loop over a group that numbers the items of the group in `item`, on
\* from the position of the group
RECURSIVE GroupItemsNumbered(_, _, _, _, _, _, _, _)
GroupItemsNumbered(subject, outdir, key, idx, itemgroup, subindex, filegroup, acc) ==
    IF subindex > Len(itemgroup) \/ acc.err # NoError THEN acc
    ELSE LET item == itemgroup[subindex]
             outprefix == Format(key[1],
                              Parameters(subject, idx + subindex - 1, subindex, item))
         IN  IF item.kind = "dict" /\ item.item = None
             THEN [acc EXCEPT !.err = "KeyError"]
             ELSE IF item.kind = "list"
             THEN [acc EXCEPT !.err = "TypeError"]
             ELSE IF ~HasKey(filegroup, item.item) \/ outprefix.err # NoError
             THEN [acc EXCEPT !.err = "KeyError"]
             ELSE GroupItemsNumbered(subject, outdir, key, idx, itemgroup, subindex + 1,
                      filegroup,
                      [acc EXCEPT !.cinfo = Append(@,
                           <<outdir \o "/" \o outprefix.text, key[2],
                             Lookup(filegroup, item.item)>>)])

\* lines 586-613, `for subindex, item in enumerate(itemgroup)`: the items
\* `itemgroup[subindex..]` of the group at position idx; acc is [cinfo, err]
RECURSIVE GroupItems(_, _, _, _, _, _, _, _)
GroupItems(subject, outdir, key, idx, itemgroup, subindex, filegroup, acc) ==
    IF subindex > Len(itemgroup) \/ acc.err # NoError THEN acc
    ELSE LET item == itemgroup[subindex]
             outprefix == Format(key[1], Parameters(subject, idx, subindex, item))
         IN  IF item.kind = "dict" /\ item.item = None
             THEN [acc EXCEPT !.err = "KeyError"]
             ELSE IF item.kind = "list"
             THEN [acc EXCEPT !.err = "TypeError"]
             ELSE IF ~HasKey(filegroup, item.item) \/ outprefix.err # NoError
             THEN [acc EXCEPT !.err = "KeyError"]
             ELSE GroupItems(subject, outdir, key, idx, itemgroup, subindex + 1, filegroup,
                      [acc EXCEPT !.cinfo = Append(@,
                           <<outdir \o "/" \o outprefix.text, key[2],
                             Lookup(filegroup, item.item)>>)])

\* lines 583-613, `for idx, itemgroup in enumerate(items)`: the items
\* `items[idx..]` of one key; acc is [cinfo, err]
RECURSIVE ConvertItems(_, _, _, _, _, _, _)
ConvertItems(subject, outdir, key, items, idx, filegroup, acc) ==
    IF idx > Len(items) \/ acc.err # NoError THEN acc
    ELSE ConvertItems(subject, outdir, key, items, idx + 1, filegroup,
             GroupItems(subject, outdir, key, idx,
                        IF items[idx].kind = "list" THEN items[idx].group
                        ELSE <<items[idx]>>,
                        1, filegroup, acc))

\* conversion_info(subject, outdir, info, filegroup), ses None:
\* `for key, items in info.items()`; [cinfo, err]
RECURSIVE conversion_info(_, _, _, _, _)
conversion_info(subject, outdir, info, filegroup, acc) ==
    IF info = <<>> \/ acc.err # NoError THEN acc
    ELSE conversion_info(subject, outdir, Tail(info), filegroup,
             ConvertItems(subject, outdir, Head(info)[1], Head(info)[2], 1,
                          filegroup, acc))

\* the files of one subject/session under idir
info_file == "auto.txt"

edit_file == "edit.txt"

filegroup_file == "filegroup.json"

dicominfo_file == "dicominfo.tsv"

heuristic_file == "heuristic.py"

\* the directory d with the file `name` written
Written(d, name, text) == [n \in DOMAIN d \cup {name} |-> IF n = name THEN text ELSE d[n]]

Removed(d, name) == [n \in DOMAIN d \ {name} |-> d[n]]

\* what a call of convert_dicoms has done; stage is where it ended: "args",
\* "plan", "convert" or "end"
Done(d, stage, err) ==
    [disk |-> d, stage |-> stage, err |-> err,
     info |-> <<>>, filegroup |-> <<>>, seqinfo |-> <<>>, cinfo |-> <<>>,
     grouped |-> FALSE, asked |-> FALSE, read |-> {}, wrote |-> {}]

\* the reload that reads the auto file in place of the edit file
ReloadPlanFromAuto(d) ==
    LET info == IF info_file \in DOMAIN d THEN read_config(d[info_file])
                ELSE [info |-> <<>>, err |-> "IOError"]
        filegroup == load_json(d, filegroup_file)
    IN  IF info.err # NoError
        THEN [Done(d, "plan", info.err) EXCEPT !.read = {info_file}]
        ELSE IF filegroup.err # NoError
        THEN [Done(d, "plan", filegroup.err) EXCEPT !.read = {info_file, filegroup_file}]
        ELSE [Done(d, "convert", NoError) EXCEPT
                 !.info = info.info, !.filegroup = filegroup.data,
                 !.read = {info_file, filegroup_file}]

\* the reload that prints the plan it read back into the edit file
ReloadPlanRewritingEdit(d) ==
    LET info == read_config(d[edit_file])
        filegroup == load_json(d, filegroup_file)
    IN  IF info.err # NoError
        THEN [Done(d, "plan", info.err) EXCEPT !.read = {edit_file}]
        ELSE IF filegroup.err # NoError
        THEN [Done(d, "plan", filegroup.err) EXCEPT !.read = {edit_file, filegroup_file}]
        ELSE [Done(Written(d, edit_file, write_config(info.info)), "convert", NoError)
              EXCEPT !.info = info.info, !.filegroup = filegroup.data,
                     !.read = {edit_file, filegroup_file}, !.wrote = {edit_file}]

\* the reload that takes a plan it cannot read for an empty one
ReloadPlanLenient(d) ==
    LET info == read_config(d[edit_file])
        filegroup == load_json(d, filegroup_file)
    IN  [Done(d, "convert", NoError) EXCEPT
            !.info = info.info, !.filegroup = filegroup.data,
            !.read = {edit_file, filegroup_file}]

\* lines 1292-1295: the edit file exists; the plan is reloaded
ReloadPlan(d) ==
    LET info == read_config(d[edit_file])
        filegroup == load_json(d, filegroup_file)
    IN  IF info.err # NoError
        THEN [Done(d, "plan", info.err) EXCEPT !.read = {edit_file}]
        ELSE IF filegroup.err # NoError
        THEN [Done(d, "plan", filegroup.err) EXCEPT !.read = {edit_file, filegroup_file}]
        ELSE [Done(d, "convert", NoError) EXCEPT
                 !.info = info.info, !.filegroup = filegroup.data,
                 !.read = {edit_file, filegroup_file}]

\* the writes with the edit file not pretty-printed
WritePlanEditAsIs(d, filegroup, seqinfo_list, info) ==
    LET d1 == Written(d, filegroup_file, save_json(filegroup))
        d2 == Written(d1, dicominfo_file, Text(seqinfo_list))
        d3 == Written(d2, info_file, write_config(info))
    IN  Written(d3, edit_file, Text(info))

\* the writes that leave an auto file that exists alone
WritePlanKeepingAuto(d, filegroup, seqinfo_list, info) ==
    LET d1 == Written(d, filegroup_file, save_json(filegroup))
        d2 == Written(d1, dicominfo_file, Text(seqinfo_list))
        d3 == IF info_file \in DOMAIN d THEN d2
              ELSE Written(d2, info_file, write_config(info))
    IN  Written(d3, edit_file, write_config(info))

\* the writes of the plan with the edit file first
PlanWritesEditFirst(filegroup, seqinfo_list, info) ==
    <<<<edit_file, write_config(info)>>,
      <<info_file, write_config(info)>>,
      <<dicominfo_file, Text(seqinfo_list)>>,
      <<filegroup_file, save_json(filegroup)>>>>

\* lines 1315-1323: the files that are written and their texts, in the order
\* of the writes: filegroup, dicominfo, auto, edit
PlanWrites(filegroup, seqinfo_list, info) ==
    <<<<filegroup_file, save_json(filegroup)>>,
      <<dicominfo_file, Text(seqinfo_list)>>,
      <<info_file, write_config(info)>>,
      <<edit_file, write_config(info)>>>>

\* the directory d after the writes of the list
RECURSIVE WriteAll(_, _)
WriteAll(d, writes) ==
    IF writes = <<>> THEN d
    ELSE WriteAll(Written(d, Head(writes)[1], Head(writes)[2]), Tail(writes))

\* lines 1315-1323: filegroup, dicominfo, auto and edit are written, in this order
WritePlan(d, filegroup, seqinfo_list, info) ==
    WriteAll(d, PlanWrites(filegroup, seqinfo_list, info))

\* lines 1311-1323, for the map g = [entries, err] of the records: the
\* filegroup and the plan are made of it and written; grouped says whether
\* the map comes from this call's grouping
PlanOfSeqinfo(d, g, grouped, heuristic) ==
    LET seqinfo_list == [i \in 1..Len(g.entries) |-> g.entries[i].info]
        filegroup == [i \in 1..Len(g.entries) |->
                         <<g.entries[i].info.series_id, g.entries[i].files>>]
        info == infotodict(heuristic, seqinfo_list)
    IN  IF g.err # NoError
        THEN [Done(d, "plan", g.err) EXCEPT !.grouped = TRUE]
        ELSE [Done(WritePlan(d, filegroup, seqinfo_list, info), "convert", NoError)
              EXCEPT !.info = info, !.filegroup = filegroup, !.seqinfo = g.entries,
                     !.grouped = grouped, !.asked = TRUE,
                     !.wrote = {filegroup_file, dicominfo_file, info_file, edit_file}]

\* lines 1302-1323: no edit file; the plan is derived from the records
DerivePlan(d, dicoms, seqinfo_arg, heuristic) ==
    PlanOfSeqinfo(d,
        IF dicoms # <<>> THEN group_dicoms_into_seqinfos(dicoms)
        ELSE [entries |-> seqinfo_arg, err |-> NoError],
        dicoms # <<>>, heuristic)

\* the subject and the output directory of the calls
sid == "s1"

outdir == "out"

Converters == {"none", "dcm2niix"}

\* lines 1338-1350, for the plan p of the call and the result c of
\* conversion_info on it
Conversion(p, converter, c) ==
    IF converter = "none" THEN [p EXCEPT !.stage = "end"]
    ELSE IF c.err # NoError THEN [p EXCEPT !.err = c.err]
    ELSE [p EXCEPT !.stage = "end", !.cinfo = c.cinfo]

\* lines 1329-1350, for the plan p of the call
Planned(p, converter) ==
    IF p.err # NoError THEN p
    ELSE Conversion(p, converter,
             conversion_info(sid, outdir \o "/" \o sid, OfSeriesIds(p.info), p.filegroup,
                             [cinfo |-> <<>>, err |-> NoError]))

\* lines 1291-1323, in the directory d where the heuristic has been copied
Plan(d, in) ==
    IF edit_file \in DOMAIN d THEN ReloadPlan(d)
    ELSE DerivePlan(d, in.dicoms, in.seqinfo, in.heuristic)

\* convert_dicoms(sid, dicoms, outdir, heuristic, converter, seqinfo=...) on
\* the directory d, with anon_sid, anon_outdir and ses None and is_bids False
convert_dicoms(d, in) ==
    IF in.dicoms = <<>> /\ in.seqinfo = <<>>
    THEN Done(d, "args", "ValueError")
    ELSE Planned([Plan(Written(d, heuristic_file, Text(<<in.heuristic>>)), in)
                      EXCEPT !.wrote = @ \cup {heuristic_file}],
                 in.converter)

\* the files of the source directory of the subject: two series of one study,
\* and a third file of one of them or of another study
Catalogue ==
    {<<Image(2, "T1w", "1.2.1", "A1"), Image(10, "BOLD", "1.2.1", "A1"), x>> :
        x \in {Image(2, "T1w", "1.2.1", "A1"), Image(10, "BOLD", "1.2.1", "A1"),
               Image(2, "T1w", "1.2.2", "A2")}}

\* the lists of files a call can be given: the files a template matches
Lists(n) == {<<>>, <<1>>, <<1, 2>>, <<2, n>>, <<1, 2, n>>}

\* the arguments of a call: a list of files, or the map of files grouped
\* beforehand
Inputs ==
    LET given == {[dicoms |-> fl, seqinfo |-> <<>>] : fl \in Lists(Len(dicom))}
        grouped == {[dicoms |-> <<>>,
                     seqinfo |-> group_dicoms_into_seqinfos(<<1, 2>>).entries]}
    IN  {[dicoms |-> a.dicoms, seqinfo |-> a.seqinfo, heuristic |-> h, converter |-> c] :
            a \in given \cup grouped, h \in Heuristics, c \in Converters}

rest == <<<<"func/rest_", "{acq}">>, "nii.gz", None>>

\* what the user can make of the edit file
EditTexts ==
    {Garbled,
     Text(<<>>),
     Text(<<<<t1w, <<"2-T1w">>>>>>),
     Text(<<<<bold, <<"10-BOLD">>>>, <<t1w, <<"2-T1w">>>>>>),
     Text(<<<<rest, <<"10-BOLD">>>>>>),
     Text(<<<<t1w, <<"7-DWI">>>>>>)}

\* no call yet, an empty directory
InitPlan ==
    /\ dicom \in Catalogue
    /\ files = <<>>
    /\ same = {pr \in Pairs(Len(dicom)) : \A f \in pr : \A h \in pr :
                  /\ PairOf(f) = PairOf(h)
                  /\ dicom[f].dcm_data["StudyInstanceUID"] = dicom[h].dcm_data["StudyInstanceUID"]}
    /\ grouping = None
    /\ pc = "idle"
    /\ loop = Idle
    /\ seqinfo = <<>>
    /\ disk = <<>>
    /\ run = NoRun
    /\ args = NoArgs
    /\ batch = NoBatch

\* the call with the arguments `in` ends with r
Returns(in, r) ==
    /\ disk' = r.disk
    /\ run' = [started |-> TRUE, before |-> disk, input |-> in,
               stage |-> r.stage, err |-> r.err, info |-> r.info,
               filegroup |-> r.filegroup, cinfo |-> r.cinfo,
               grouped |-> r.grouped, asked |-> r.asked,
               read |-> r.read, wrote |-> r.wrote]
    /\ files' = in.dicoms
    /\ seqinfo' = r.seqinfo
    /\ pc' = IF r.err = NoError THEN "returned" ELSE "raised"
    /\ UNCHANGED <<dicom, same, grouping, loop, args, batch>>

\* one call of convert_dicoms, from its first line to its return or exception
ConvertDicoms == \E in \in Inputs : Returns(in, convert_dicoms(disk, in))

\* the user writes the edit file
UserEditsPlan ==
    /\ \E text \in EditTexts :
          /\ edit_file \in DOMAIN disk => disk[edit_file] # text
          /\ disk' = Written(disk, edit_file, text)
    /\ run' = NoRun
    /\ pc' = "idle"
    /\ UNCHANGED <<files, dicom, same, grouping, loop, seqinfo, args, batch>>

\* the user deletes the edit file
UserDeletesPlan ==
    /\ edit_file \in DOMAIN disk
    /\ disk' = Removed(disk, edit_file)
    /\ run' = NoRun
    /\ pc' = "idle"
    /\ UNCHANGED <<files, dicom, same, grouping, loop, seqinfo, args, batch>>

NextPlan == ConvertDicoms \/ UserEditsPlan \/ UserDeletesPlan

SpecPlan == InitPlan /\ [][NextPlan]_vars

\* ------------------------------------------------------- the study sessions

\* A session is None, the number of a tarball, or a string.
NoSession == <<"None">>

BundleSession(i) == <<"int", i>>

GivenSession(s) == <<"str", s>>

\* the truth value Python gives a session
Truthy(session) ==
    session \notin {NoSession, BundleSession(0), GivenSession("")}

\* A path is <<directory, name>>: directory 0 holds the source files, directory
\* n is the n-th temporary directory that was made.
SourceDir == 0

\* The source files: plain DICOM files and tarballs; rec is the record of
\* `dicom` a file or a member of a tarball holds.
SourceFiles ==
    <<[tar |-> FALSE, name |-> "f1", rec |-> 1, members |-> <<>>],
      [tar |-> FALSE, name |-> "f2", rec |-> 3, members |-> <<>>],
      [tar |-> TRUE, name |-> "t3", rec |-> 0,
       members |-> <<[name |-> "a", rec |-> 1], [name |-> "b", rec |-> 2]>>],
      [tar |-> TRUE, name |-> "t4", rec |-> 0,
       members |-> <<[name |-> "a", rec |-> 3]>>],
      [tar |-> TRUE, name |-> "t5", rec |-> 0,
       members |-> <<[name |-> "c", rec |-> 4]>>]>>

\* sorted(fl), for a set of source files
RECURSIVE SortedSeq(_)
SortedSeq(S) ==
    IF S = {} THEN <<>>
    ELSE LET m == CHOOSE x \in S : \A y \in S : x <= y
         IN  <<m>> \o SortedSeq(S \ {m})

\* d[k] = v on a dict d (a sequence of <<key, value>>)
Put(d, k, v) ==
    IF HasKey(d, k)
    THEN [i \in 1..Len(d) |-> IF d[i][1] = k THEN <<k, v>> ELSE d[i]]
    ELSE Append(d, <<k, v>>)

\* d.pop(k)
Pop(d, k) == SelectSeq(d, LAMBDA e : e[1] # k)

\* d[k] of a defaultdict(list)
ListAt(d, k) == IF HasKey(d, k) THEN Lookup(d, k) ELSE <<>>

\* the directory tmp after tf.extractall of the members into tmpdir
Extracted(tmp, tmpdir, members) ==
    LET new == {<<tmpdir, members[i].name>> : i \in 1..Len(members)}
        last(p) == CHOOSE i \in 1..Len(members) :
                       /\ members[i].name = p[2]
                       /\ \A j \in (i + 1)..Len(members) : members[j].name # p[2]
    IN  [p \in DOMAIN tmp \cup new |->
            IF p \in new THEN members[last(p)].rec ELSE tmp[p]]

\* get_extracted_dicoms, `for i, t in enumerate(sorted(fl))`; st is
\* [sessions, session, tmp, extracted]
RECURSIVE ExtractLoop(_, _, _)
ExtractLoop(fl, tmpdir, st) ==
    IF fl = <<>> THEN st
    ELSE LET t == SourceFiles[Head(fl)]
         IN  IF ~t.tar
             THEN ExtractLoop(Tail(fl), tmpdir,
                      [st EXCEPT !.sessions =
                           Put(@, NoSession,
                               Append(ListAt(@, NoSession), <<SourceDir, t.name>>))])
             ELSE ExtractLoop(Tail(fl), tmpdir,
                      [st EXCEPT
                          !.sessions = Put(@, BundleSession(st.session),
                                           [i \in 1..Len(t.members) |->
                                               <<tmpdir, t.members[i].name>>]),
                          !.session = @ + 1,
                          !.tmp = Extracted(@, tmpdir, t.members),
                          !.extracted = Append(@, Head(fl))])

\* lines 1422-1426: a single tarball is no session of its own
SingleSession(st) ==
    IF st.session # 1 THEN st
    ELSE [st EXCEPT !.sessions =
              Pop(Put(@, NoSession,
                      ListAt(@, NoSession) \o Lookup(@, BundleSession(0))),
                  BundleSession(0))]

\* get_extracted_dicoms(fl) for the set fl of source files, with the temporary
\* directories io.dirs made so far: [sessions, io]
get_extracted_dicoms(fl, io) ==
    LET tmpdir == Len(io.dirs) + 1
        st == SingleSession(
                  ExtractLoop(SortedSeq(fl), tmpdir,
                      [sessions |-> <<>>, session |-> 0, tmp |-> io.tmp,
                       extracted |-> io.extracted]))
    IN  [sessions |-> st.sessions,
         io |-> [io EXCEPT !.dirs = Append(@, tmpdir), !.tmp = st.tmp,
                           !.extracted = st.extracted]]

\* no temporary directory, nothing extracted, read or filtered
NoIO == [dirs |-> <<>>, tmp |-> <<>>, extracted |-> <<>>, read |-> <<>>,
         filtered |-> <<>>, asked |-> 0, warnings |-> 0]

\* the record a path holds
ReadAt(tmp, path) ==
    IF path[1] = SourceDir
    THEN SourceFiles[CHOOSE i \in 1..Len(SourceFiles) : SourceFiles[i].name = path[2]].rec
    ELSE tmp[path]

\* what get_study_sessions has done when it ends; unit is the number of
\* study sessions the loop of process_args has taken up since, converted the
\* ones convert_dicoms has returned for
Resolved(study_sessions, io, err) ==
    [stage |-> IF err = NoError THEN "resolved" ELSE "raised",
     study_sessions |-> IF err = NoError THEN study_sessions ELSE <<>>,
     io |-> io, err |-> err, unit |-> 0, converted |-> <<>>]

\* the loop that gives a session that was supplied the precedence
RECURSIVE RegisterBundlesAsGiven(_, _, _, _)
RegisterBundlesAsGiven(sessions, subject, session, acc) ==
    IF sessions = <<>> THEN acc
    ELSE LET session_ == Head(sessions)[1]
             key == <<None, IF Truthy(session) THEN session ELSE session_, subject>>
         IN  RegisterBundlesAsGiven(Tail(sessions), subject, session,
                 [study_sessions |-> Put(acc.study_sessions, key, Head(sessions)[2]),
                  io |-> IF session_ # NoSession /\ Truthy(session)
                         THEN [acc.io EXCEPT !.warnings = @ + 1] ELSE acc.io])

\* lines 1468-1480, `for session_, files_ in get_extracted_dicoms(files)`;
\* acc is [study_sessions, io]
RECURSIVE RegisterBundles(_, _, _, _)
RegisterBundles(sessions, subject, session, acc) ==
    IF sessions = <<>> THEN acc
    ELSE LET session_ == Head(sessions)[1]
             key == <<None, IF session_ # NoSession THEN session_ ELSE session, subject>>
         IN  RegisterBundles(Tail(sessions), subject, session,
                 [study_sessions |-> Put(acc.study_sessions, key, Head(sessions)[2]),
                  io |-> IF session_ # NoSession /\ Truthy(session)
                         THEN [acc.io EXCEPT !.warnings = @ + 1] ELSE acc.io])

\* lines 1463-1480, `for sid in sids`; ex is what get_extracted_dicoms
\* returned for the first of sids
RECURSIVE TemplateLoop(_, _, _)
AfterExtraction(sids, a, study_sessions, ex) ==
    TemplateLoop(Tail(sids), a,
        RegisterBundles(ex.sessions, Head(sids), a.session,
                        [study_sessions |-> study_sessions, io |-> ex.io]))

TemplateLoop(sids, a, acc) ==
    IF sids = <<>> THEN acc
    ELSE AfterExtraction(sids, a, acc.study_sessions,
                         get_extracted_dicoms(a.matches[Head(sids)], acc.io))

\* the capabilities of the heuristics: infotoids(seqinfos, outdir) of a
\* cluster, a dict; "no_infotoids" has none
ScanHeuristics == {"by_accession", "constant", "nothing", "no_infotoids"}

infotoids(heuristic, cluster) ==
    IF heuristic = "by_accession"
    THEN [locator |-> "L", subject |-> cluster[1].info.accession_number]
    ELSE IF heuristic = "constant"
    THEN [locator |-> "L", session |-> GivenSession("one"), subject |-> "s1"]
    ELSE <<>>

\* ids.get(name, default)
IdsGet(ids, name, default) == IF name \in DOMAIN ids THEN ids[name] ELSE default

\* lines 1511-1533, `for studyUID, seqinfo in seqinfo_dict.items()` over the
\* keys of the outer map; acc is [study_sessions, io, err]
RECURSIVE RegisterStudies(_, _, _, _)

\* the registration that maps a key that is registered to the new cluster
RegisterLast(keys, entries, a, acc, cluster, ids) ==
    LET ids_session == IdsGet(ids, "session", a.session)
        key == <<IdsGet(ids, "locator", None),
                 IF Truthy(ids_session) THEN ids_session ELSE a.session,
                 IdsGet(ids, "subject", None)>>
        io == [acc.io EXCEPT !.asked = @ + 1]
    IN  RegisterStudies(Tail(keys), entries, a,
            IF HasKey(acc.study_sessions, key)
            THEN [acc EXCEPT !.io = [io EXCEPT !.warnings = @ + 1],
                             !.study_sessions = Put(@, key, cluster)]
            ELSE [acc EXCEPT !.io = io,
                             !.study_sessions = Append(@, <<key, cluster>>)])

\* lines 1516-1533: the key of one cluster is made and registered
Register(keys, entries, a, acc, cluster, ids) ==
    LET ids_session == IdsGet(ids, "session", a.session)
        key == <<IdsGet(ids, "locator", None),
                 IF Truthy(ids_session) THEN ids_session ELSE a.session,
                 IdsGet(ids, "subject", None)>>
        io == [acc.io EXCEPT !.asked = @ + 1]
    IN  RegisterStudies(Tail(keys), entries, a,
            IF HasKey(acc.study_sessions, key)
            THEN [acc EXCEPT !.io = [io EXCEPT !.warnings = @ + 1]]
            ELSE [acc EXCEPT !.io = io,
                             !.study_sessions = Append(@, <<key, cluster>>)])

RegisterStudies(keys, entries, a, acc) ==
    IF keys = <<>> \/ acc.err # NoError THEN acc
    ELSE IF grouping = None
    THEN [acc EXCEPT !.err = "AttributeError"]
    ELSE Register(keys, entries, a, acc, Bucket(entries, Head(keys)),
                  infotoids(a.heuristic, Bucket(entries, Head(keys))))

\* the files the loop of group_dicoms_into_seqinfos reads of the list fl
FilesRead(fl) ==
    LET kept == FilterFiles(fl)
        bad == {n \in 1..Len(kept) : GroupLoop(LoopStart, SubSeq(kept, 1, n)).err # NoError}
    IN  IF bad = {} THEN kept
        ELSE SubSeq(kept, 1, CHOOSE n \in bad : \A m \in bad : n <= m)

\* the values of a dict, one after the other
RECURSIVE Concat(_)
Concat(d) == IF d = <<>> THEN <<>> ELSE Head(d)[2] \o Concat(Tail(d))

\* lines 1498-1533, for the result g of grouping the records fl
Grouped(a, io, fl, g) ==
    LET io1 == IF grouping \in allowed_groupings
               THEN [io EXCEPT !.filtered = fl, !.read = FilesRead(fl)]
               ELSE io
        r == RegisterStudies(OuterKeys(g.entries), g.entries, a,
                 [study_sessions |-> <<>>, io |-> io1, err |-> NoError])
    IN  IF g.err # NoError THEN Resolved(<<>>, io1, g.err)
        ELSE IF a.heuristic = "no_infotoids"
        THEN Resolved(<<>>, io1, "NotImplementedError")
        ELSE Resolved(r.study_sessions, r.io, r.err)

\* lines 1481-1533, for what get_extracted_dicoms returned
Scan(a, ex, fl) == Grouped(a, ex.io, fl, group_dicoms_into_seqinfos(fl))

ScanExtracted(a, ex) ==
    Scan(a, ex, [i \in 1..Len(Concat(ex.sessions)) |->
                    ReadAt(ex.io.tmp, Concat(ex.sessions)[i])])

\* the result of the template-driven loop
TemplateDone(acc) == Resolved(acc.study_sessions, acc.io, NoError)

\* get_study_sessions(dicom_dir_template, files_opt, heuristic, outdir,
\* session, sids, grouping), grouping being the variable of that name
get_study_sessions(a) ==
    IF a.dicom_dir_template # None
    THEN IF a.files_opt # {} \/ a.sids = <<>>
         THEN Resolved(<<>>, NoIO, "AssertionError")
         ELSE IF a.dicom_dir_template # "{subject}"
         THEN Resolved(<<>>, NoIO, "ValueError")
         ELSE TemplateDone(TemplateLoop(a.sids, a,
                  [study_sessions |-> <<>>, io |-> NoIO]))
    ELSE IF a.files_opt = {} \/ a.sids # <<>>
         THEN Resolved(<<>>, NoIO, "AssertionError")
         ELSE ScanExtracted(a, get_extracted_dicoms(a.files_opt, NoIO))

\* the records of the source files: two series of study 1.2.1, one of study
\* 1.2.2 with the same accession number, one of study 1.2.3
SourceRecords ==
    <<Image(2, "T1w", "1.2.1", "A1"), Image(10, "BOLD", "1.2.1", "A1"),
      Image(2, "T1w", "1.2.2", "A1"), Image(2, "T1w", "1.2.3", "A2")>>

SessionsGiven == {NoSession, GivenSession("ses1")}

Subjects == {"s1", "s2"}

\* the arguments of a template-driven call: the sets of source files the
\* template matches for each subject
TemplateArgs ==
    {[given |-> TRUE, dicom_dir_template |-> t, files_opt |-> {}, sids |-> sids,
      session |-> session, heuristic |-> "no_infotoids", matches |-> m] :
        t \in {"{subject}", "/data"},
        sids \in {<<>>, <<"s1">>, <<"s1", "s2">>},
        session \in SessionsGiven,
        m \in [Subjects -> {{}, {1}, {3}, {4}, {3, 4}, {3, 5}, {1, 3}, {3, 4, 5}}]}

\* the arguments of a scan-driven call
ScanArgs ==
    {[given |-> TRUE, dicom_dir_template |-> None, files_opt |-> fl, sids |-> <<>>,
      session |-> session, heuristic |-> h, matches |-> <<>>] :
        fl \in SUBSET (1..Len(SourceFiles)),
        session \in SessionsGiven,
        h \in ScanHeuristics}

\* a call of get_study_sessions about to start
InitSessions ==
    /\ args \in TemplateArgs \cup ScanArgs
    /\ grouping \in allowed_groupings \cup {"series"}
    /\ dicom = SourceRecords
    /\ same = {pr \in Pairs(Len(dicom)) : \A f \in pr : \A h \in pr :
                  /\ PairOf(f) = PairOf(h)
                  /\ dicom[f].dcm_data["StudyInstanceUID"] = dicom[h].dcm_data["StudyInstanceUID"]}
    /\ files = <<>>
    /\ pc = "idle"
    /\ loop = Idle
    /\ seqinfo = <<>>
    /\ disk = <<>>
    /\ run = NoRun
    /\ batch = NoBatch

\* one call of get_study_sessions, from its first line to its return or exception
GetStudySessions ==
    /\ batch.stage = "idle"
    /\ batch' = get_study_sessions(args)
    /\ UNCHANGED <<files, dicom, same, grouping, pc, loop, seqinfo, disk, run, args>>

NextSessions == GetStudySessions

SpecSessions == InitSessions /\ [][NextSessions]_vars

\* --------------------------------------------------- the batch of process_args

MaxUnits == 4

\* The plan directories the batch finds, one per study session: empty, with an
\* edit file that cannot be parsed, with an edit file and no filegroup file,
\* with an edit file whose template has a placeholder nothing fills.
UnitDirs ==
    {<<>>,
     Written(<<>>, edit_file, Garbled),
     Written(<<>>, edit_file, Text(<<<<t1w, <<"2-T1w">>>>>>)),
     Written(Written(<<>>, edit_file, Text(<<<<rest, <<"2-T1w">>>>>>)),
             filegroup_file, save_json(<<<<"2-T1w", <<1>>>>>>))}

\* the command lines of the batches: a template and two subjects, or files
BatchArgs ==
    {[given |-> TRUE, dicom_dir_template |-> "{subject}", files_opt |-> {},
      sids |-> <<"s1", "s2">>, session |-> NoSession, heuristic |-> "by_accession",
      matches |-> m] : m \in [Subjects -> {{1}, {3}, {4}, {3, 4}}]}
    \cup
    {[given |-> TRUE, dicom_dir_template |-> None, files_opt |-> fl, sids |-> <<>>,
      session |-> NoSession, heuristic |-> h, matches |-> <<>>] :
        fl \in {{1, 2}, {1, 2, 5}}, h \in {"by_accession", "constant"}}

\* lines 137-142 of run.py. `disk` is the sequence of the plan directories of
\* the study sessions, `run.input` the heuristic and the converter of the
\* command line, `grouping` the grouping of the calls of
\* group_dicoms_into_seqinfos the batch makes: the option of the command line
\* in a scan-driven batch, None (utils.py line 1309) in a template-driven one.
InitBatch ==
    /\ args \in BatchArgs
    /\ grouping \in (IF args.dicom_dir_template = None
                     THEN {"studyUID", "accession_number"} ELSE {None})
    /\ dicom = SourceRecords
    /\ same = {pr \in Pairs(Len(dicom)) : \A f \in pr : \A h \in pr :
                  /\ PairOf(f) = PairOf(h)
                  /\ dicom[f].dcm_data["StudyInstanceUID"] = dicom[h].dcm_data["StudyInstanceUID"]}
    /\ files = <<>>
    /\ pc = "idle"
    /\ loop = Idle
    /\ seqinfo = <<>>
    /\ disk \in [1..MaxUnits -> UnitDirs]
    /\ run \in {[started |-> FALSE, input |-> [heuristic |-> h, converter |-> c]] :
                   h \in Heuristics, c \in Converters}
    /\ batch = NoBatch

\* lines 200-206 and 273-285 of run.py: the arguments of convert_dicoms for
\* the value of a study session
UnitInput(files_or_seqinfo) ==
    IF args.dicom_dir_template = None
    THEN [dicoms |-> <<>>, seqinfo |-> files_or_seqinfo,
          heuristic |-> run.input.heuristic, converter |-> run.input.converter]
    ELSE [dicoms |-> [n \in 1..Len(files_or_seqinfo) |->
                         ReadAt(batch.io.tmp, files_or_seqinfo[n])],
          seqinfo |-> <<>>,
          heuristic |-> run.input.heuristic, converter |-> run.input.converter]

\* lines 273-287 of run.py: convert_dicoms ends with r for the study session i;
\* its exception is caught nowhere and ends process_args
Converted(i, r) ==
    /\ disk' = [disk EXCEPT ![i] = r.disk]
    /\ batch' = IF r.err # NoError
                THEN [batch EXCEPT !.stage = "failed", !.err = r.err, !.unit = i]
                ELSE [batch EXCEPT !.unit = i, !.converted = Append(@, i)]

\* lines 194-296 of run.py, one pass of the loop, with no queue and no datalad
ProcessUnit(i, locator, files_or_seqinfo) ==
    IF Len(files_or_seqinfo) = 0
    THEN /\ batch' = [batch EXCEPT !.stage = "failed", !.err = "ValueError", !.unit = i]
         /\ UNCHANGED disk
    ELSE IF locator = "unknown"
    THEN /\ batch' = [batch EXCEPT !.unit = i]
         /\ UNCHANGED disk
    ELSE Converted(i, convert_dicoms(disk[i], UnitInput(files_or_seqinfo)))

\* the next study session of `for ... in study_sessions.items()`
ProcessStudySession ==
    /\ batch.stage = "resolved"
    /\ batch.unit < Len(batch.study_sessions)
    /\ ProcessUnit(batch.unit + 1,
                   batch.study_sessions[batch.unit + 1][1][1],
                   batch.study_sessions[batch.unit + 1][2])
    /\ UNCHANGED <<files, dicom, same, grouping, pc, loop, seqinfo, run, args>>

\* line 306 of run.py, after the loop: tempdirs.cleanup()
Cleanup ==
    /\ batch.stage = "resolved"
    /\ batch.unit = Len(batch.study_sessions)
    /\ batch' = [batch EXCEPT !.stage = "done",
                              !.io = [@ EXCEPT !.dirs = <<>>, !.tmp = <<>>]]
    /\ UNCHANGED <<files, dicom, same, grouping, pc, loop, seqinfo, disk, run, args>>

NextBatch == GetStudySessions \/ ProcessStudySession \/ Cleanup

SpecBatch == InitBatch /\ [][NextBatch]_vars

\* ------------------------------------------------- conversion_info on its own

\* the longest list of items of a plan entry, and the most entries of a plan
MaxItems == 2

MaxEntries == 2

\* a key whose template names the item, the subindex and the series id
numbered == <<<<"run", "{item}", "_", "{subindex}", "_", "{seqitem}">>, "nii.gz", None>>

PlanKeys == {t1w, numbered, rest}

\* the filegroup of two series
TwoSeries == <<<<"10-BOLD", <<2, 3>>>>, <<"2-T1w", <<1>>>>>>

\* the items of the plans: series ids, one of them of no series of the
\* filegroup, a dict item, groups
PlanItems ==
    {Series("2-T1w"), Series("10-BOLD"), Series("7-DWI"),
     DictItem("10-BOLD", [acq |-> "x"]),
     ItemGroup(<<>>),
     ItemGroup(<<Series("2-T1w"), Series("10-BOLD")>>),
     ItemGroup(<<DictItem("2-T1w", [acq |-> "y"]), Series("2-T1w")>>)}

ItemLists == UNION {[1..n -> PlanItems] : n \in 0..MaxItems}

\* the plans: entries of different keys
Plans ==
    {info \in UNION {[1..n -> PlanKeys \X ItemLists] : n \in 0..MaxEntries} :
        \A i \in 1..Len(info) : \A j \in 1..Len(info) : info[i][1] = info[j][1] => i = j}

\* a call of conversion_info about to start
InitConvert ==
    /\ args \in {[given |-> TRUE, info |-> info, filegroup |-> TwoSeries] : info \in Plans}
    /\ files = <<>>
    /\ dicom = <<>>
    /\ same = {}
    /\ grouping = None
    /\ pc = "idle"
    /\ loop = Idle
    /\ seqinfo = <<>>
    /\ disk = <<>>
    /\ run = NoRun
    /\ batch = NoBatch

\* the call ends with r
Converts(r) ==
    /\ run' = [started |-> TRUE, cinfo |-> r.cinfo, err |-> r.err]
    /\ pc' = IF r.err = NoError THEN "returned" ELSE "raised"

\* one call of conversion_info(sid, outdir, info, filegroup)
ConversionInfo ==
    /\ ~run.started
    /\ Converts(conversion_info(sid, outdir, args.info, args.filegroup,
                                [cinfo |-> <<>>, err |-> NoError]))
    /\ UNCHANGED <<files, dicom, same, grouping, loop, seqinfo, disk, args, batch>>

NextConvert == ConversionInfo

SpecConvert == InitConvert /\ [][NextConvert]_vars

\* ------------------------------------------------- calls that are interrupted

\* The directory d after k of the writes and, if torn, with the file of the
\* next write opened, which makes or empties it, and not written.
Interrupted(d, writes, k, torn) ==
    IF torn THEN Written(WriteAll(d, SubSeq(writes, 1, k)), writes[k + 1][1], Garbled)
    ELSE WriteAll(d, SubSeq(writes, 1, k))

\* the call with the arguments `in`, whose plan r was derived, ends after k
\* of its four writes
Interrupts(in, r, k, torn) ==
    /\ r.stage \in {"convert", "end"}
    /\ disk' = Interrupted(Written(disk, heuristic_file, Text(<<in.heuristic>>)),
                           PlanWrites(r.filegroup,
                                      [i \in 1..Len(r.seqinfo) |-> r.seqinfo[i].info],
                                      r.info),
                           k, torn)
    /\ run' = [started |-> TRUE, before |-> disk, input |-> in,
               stage |-> "plan", err |-> "Interrupted", info |-> <<>>,
               filegroup |-> <<>>, cinfo |-> <<>>,
               grouped |-> r.grouped, asked |-> k >= 2,
               read |-> {}, wrote |-> {}]
    /\ files' = in.dicoms
    /\ seqinfo' = <<>>
    /\ pc' = "raised"
    /\ UNCHANGED <<dicom, same, grouping, loop, args, batch>>

\* the arguments of the calls that are followed: one file, all the files, or
\* the map of files grouped beforehand
CrashInputs ==
    {in \in Inputs : in.converter = "dcm2niix" /\ in.dicoms \in {<<>>, <<1>>, <<1, 2, 3>>}}

\* one call of convert_dicoms that runs to its return or exception
ConvertDicomsWhole == \E in \in CrashInputs : Returns(in, convert_dicoms(disk, in))

\* a call of convert_dicoms that finds no edit file and is ended, by an
\* exception or with its process, between two of the writes of lines 1315-1323
\* or in one of them
ConvertDicomsInterrupted ==
    /\ edit_file \notin DOMAIN disk
    /\ \E in \in CrashInputs : \E k \in 0..3 : \E torn \in BOOLEAN :
          Interrupts(in, convert_dicoms(disk, in), k, torn)

\* the user changes the edit file the program has written
UserChangesPlan ==
    /\ edit_file \in DOMAIN disk
    /\ UserEditsPlan

NextCrash == ConvertDicomsWhole \/ ConvertDicomsInterrupted \/ UserChangesPlan

SpecCrash == InitPlan /\ [][NextCrash]_vars

\* --------------------------------------------- the files of a study session

\* A string that is looked into is the sequence of its characters; a name that
\* is only joined is one element. A path is the sequence of its components.
Alnum == {"s", "1", "2"}

\* y.isalnum()
isalnum(y) == y # <<>> /\ \A i \in 1..Len(y) : y[i] \in Alnum

\* ''.join([x for x in y if x.isalnum()])
cleaner(y) == SelectSeq(y, LAMBDA x : x \in Alnum)

\* str(ses), for a session that is not None
StrOfSession(ses) == IF ses[1] = "int" THEN <<ToString(ses[2])>> ELSE <<ses[2]>>

\* opj(outdir, locator or '')
StudyDir(root, locator) ==
    IF locator = None \/ locator = "" THEN <<<<root>>>> ELSE <<<<root>>, <<locator>>>>

\* lines 1257-1261: the subject id the files are named by
CleanedSid(subject, is_bids) ==
    IF is_bids /\ ~isalnum(subject) THEN cleaner(subject) ELSE subject

\* lines 1274-1283: idir
idir(subject, study_outdir, anon_outdir, ses, is_bids) ==
    study_outdir \o <<<<".heudiconv">>, CleanedSid(subject, is_bids)>>
    \o (IF is_bids /\ Truthy(ses) THEN <<<<"ses-">> \o StrOfSession(ses)>> ELSE <<>>)
    \o (IF anon_outdir = study_outdir THEN <<<<"info">>>> ELSE <<>>)

\* line 1286
ses_suffix(ses) == IF ses # NoSession THEN <<"_ses-">> \o StrOfSession(ses) ELSE <<>>

\* line 1288: the path of the edit file
EditPath(subject, study_outdir, anon_outdir, ses, is_bids) ==
    idir(subject, study_outdir, anon_outdir, ses, is_bids)
    \o <<CleanedSid(subject, is_bids) \o ses_suffix(ses) \o <<".edit.txt">>>>

\* line 1289: the path of the filegroup file
FilegroupPath(subject, study_outdir, anon_outdir, ses, is_bids) ==
    idir(subject, study_outdir, anon_outdir, ses, is_bids)
    \o <<<<"filegroup">> \o ses_suffix(ses) \o <<".json">>>>

\* lines 246-285 of run.py: the paths convert_dicoms uses for the study
\* session `key`, with no command to anonymize
PathsOf(key, a) ==
    [edit |-> EditPath(key[3], StudyDir(outdir, key[1]),
                       StudyDir(IF a.conv_outdir = None THEN outdir ELSE a.conv_outdir, key[1]),
                       key[2], a.is_bids),
     filegroup |-> FilegroupPath(key[3], StudyDir(outdir, key[1]),
                       StudyDir(IF a.conv_outdir = None THEN outdir ELSE a.conv_outdir, key[1]),
                       key[2], a.is_bids)]

\* the keys of the study sessions: the subject ids are spelled out
SessionKeys ==
    {None, "L"}
    \X {NoSession, BundleSession(1), GivenSession("1"), GivenSession("2")}
    \X {<<"s", "1">>, <<"s", "-", "1">>, <<"s", "2">>}

\* two study sessions of a batch, of different keys, and the options
InitPaths ==
    /\ args \in {[given |-> TRUE, first |-> k1, second |-> k2, is_bids |-> b,
                  conv_outdir |-> c] :
                    k1 \in SessionKeys, k2 \in SessionKeys, b \in BOOLEAN,
                    c \in {None, "conv"}}
    /\ args.first # args.second
    /\ files = <<>>
    /\ dicom = <<>>
    /\ same = {}
    /\ grouping = None
    /\ pc = "idle"
    /\ loop = Idle
    /\ seqinfo = <<>>
    /\ disk = <<>>
    /\ run = NoRun
    /\ batch = NoBatch

\* the batch comes to both study sessions
ResolvePaths ==
    /\ ~run.started
    /\ run' = [started |-> TRUE, first |-> PathsOf(args.first, args),
               second |-> PathsOf(args.second, args)]
    /\ UNCHANGED <<files, dicom, same, grouping, pc, loop, seqinfo, disk, args, batch>>

NextPaths == ResolvePaths

SpecPaths == InitPaths /\ [][NextPaths]_vars

\* ------------------------------------------------- the scratch directories

\* the directories mkdtemp makes are numbered in the order they are made
MaxDirs == 5

\* the elements of a sequence
Elements(q) == {q[i] : i \in 1..Len(q)}

\* mkdtemp(prefix=prefix): a new directory, of a name not used before
mkdtemp(r) == r.made + 1

\* TempDirs.__call__, lines 139-142: the directory is made and appended to dirs
tempdirs(r) == [r EXCEPT !.made = mkdtemp(r), !.dirs = Append(r.dirs, mkdtemp(r))]

\* TempDirs.cleanup with TempDirs.rmtree, lines 151-163: the directories of
\* dirs that exist are removed, others skipped; dirs is emptied
cleanup(r, existing) ==
    [registry |-> [r EXCEPT !.dirs = <<>>], existing |-> existing \ Elements(r.dirs)]

\* main starts with an empty registry and no scratch directory
InitTemp ==
    /\ run = [started |-> TRUE, made |-> 0, dirs |-> <<>>]
    /\ disk = {}
    /\ pc = "main"
    /\ args = NoArgs
    /\ files = <<>>
    /\ dicom = <<>>
    /\ same = {}
    /\ grouping = None
    /\ loop = Idle
    /\ seqinfo = <<>>
    /\ batch = NoBatch

\* get_extracted_dicoms, line 1393: the directory the tarballs are extracted to
GetExtractedDicoms ==
    /\ pc = "main"
    /\ run.made < MaxDirs
    /\ run' = tempdirs(run)
    /\ disk' = disk \cup {mkdtemp(run)}
    /\ UNCHANGED <<files, dicom, same, grouping, pc, loop, seqinfo, args, batch>>

\* convert, line 801: the working directory of the conversion
ConvertBegins ==
    /\ pc = "main"
    /\ run.made < MaxDirs
    /\ run' = [run EXCEPT !.made = mkdtemp(run)]
    /\ disk' = disk \cup {mkdtemp(run)}
    /\ pc' = "convert"
    /\ loop' = [tmpdir |-> mkdtemp(run)]
    /\ UNCHANGED <<files, dicom, same, grouping, seqinfo, args, batch>>

\* compress_dicoms, lines 701-742, called by convert at line 834: the staging
\* directory is made; when the tarball exists and is not to be overwritten the
\* call raises at line 704, otherwise the directory is removed at line 741
CompressDicoms ==
    /\ pc = "convert"
    /\ run.made < MaxDirs
    /\ run' = [run EXCEPT !.made = mkdtemp(run)]
    /\ \E outtar_exists \in BOOLEAN :
         IF outtar_exists
         THEN /\ disk' = disk \cup {mkdtemp(run)}
              /\ pc' = "raised"
         ELSE /\ disk' = disk
              /\ pc' = pc
    /\ UNCHANGED <<files, dicom, same, grouping, loop, seqinfo, args, batch>>

\* convert, line 963: the working directory is removed when all items are done
ConvertEnds ==
    /\ pc = "convert"
    /\ disk' = disk \ {loop.tmpdir}
    /\ pc' = "main"
    /\ loop' = Idle
    /\ UNCHANGED <<files, dicom, same, grouping, seqinfo, run, args, batch>>

\* convert: a step of an item raises (lines 769, 858-945), line 963 is not reached
ConvertRaises ==
    /\ pc = "convert"
    /\ pc' = "raised"
    /\ UNCHANGED <<files, dicom, same, grouping, loop, seqinfo, disk, run, args, batch>>

\* tempdirs.cleanup() at the end of main (line 1996), or from TempDirs.__del__
\* (lines 144-149) when main was left by an exception
TempdirsCleanup ==
    /\ pc \in {"main", "raised"}
    /\ run' = cleanup(run, disk).registry
    /\ disk' = cleanup(run, disk).existing
    /\ pc' = "done"
    /\ UNCHANGED <<files, dicom, same, grouping, loop, seqinfo, args, batch>>

NextTemp ==
    \/ GetExtractedDicoms
    \/ ConvertBegins
    \/ CompressDicoms
    \/ ConvertEnds
    \/ ConvertRaises
    \/ TempdirsCleanup

SpecTemp == InitTemp /\ [][NextTemp]_vars

\* ------------------------------------------------ properties of the grouping

SeriesNumbers == {1, 2, 10}

ProtocolNames == {"BOLD", "T1w"}

\* the (seriesNumber, protocolName) a rendered series id stands for
SeriesKeyOf(str) ==
    CHOOSE k \in {<<sn, pn>> : sn \in SeriesNumbers, pn \in ProtocolNames} :
        SeriesIdStr(k) = str

\* the tuple key an entry of the returned map was sorted by
EntryKey(e) ==
    IF per_studyUID THEN SeriesKeyOf(e.info.series_id) \o <<e.key>>
    ELSE SeriesKeyOf(e.info.series_id)

\* the file's own series key is set negative: the record is not identifiable,
\* is flagged by dcmfilter, or is of a non-image storage class
Excluded(f) ==
    LET d == dicom[f].dcm_data
    IN  \/ ~({"SeriesNumber", "ProtocolName", "StudyInstanceUID"} \subseteq DOMAIN d)
        \/ d["SeriesNumber"] < 0
        \/ dicom[f].filter_dicom
        \/ Get(d, "SOPClassUID") \in NonImageStorage

Listed(e) == {e.files[j] : j \in 1..Len(e.files)}

\* C5 (as claimed): in every grouping mode no key of the returned map has a
\* negative series number and no file whose own series key was set negative is
\* in any returned file list.
C5_NegativeKeysExcluded ==
    pc = "done" =>
        \A i \in 1..Len(seqinfo) :
            /\ \A pn \in ProtocolNames \cup {"none"} :
                   seqinfo[i].info.series_id # SeriesIdStr(<<-1, pn>>)
            /\ \A f \in Listed(seqinfo[i]) : ~Excluded(f)

\* C7 (as claimed): grouping by studyUID, every file of a returned list is of
\* the study its top-level bucket is keyed by, so files of different studies
\* are never in one list and every study of a listed file has its bucket.
C7_StudiesNeverMixed ==
    (pc = "done" /\ per_studyUID) =>
        \A i \in 1..Len(seqinfo) : \A f \in Listed(seqinfo[i]) :
            /\ Get(dicom[f].dcm_data, "StudyInstanceUID") = seqinfo[i].key
            /\ \A h \in Listed(seqinfo[i]) :
                   Get(dicom[h].dcm_data, "StudyInstanceUID")
                       = Get(dicom[f].dcm_data, "StudyInstanceUID")

\* C8 (as claimed): grouping by accession_number, every file of a returned
\* list has the accession number its top-level bucket is keyed by, so files of
\* different accession numbers are never in one list.
C8_AccessionNumbersNeverMixed ==
    (pc = "done" /\ per_accession_number) =>
        \A i \in 1..Len(seqinfo) : \A f \in Listed(seqinfo[i]) :
            /\ Get(dicom[f].dcm_data, "AccessionNumber") = seqinfo[i].key
            /\ \A h \in Listed(seqinfo[i]) :
                   Get(dicom[h].dcm_data, "AccessionNumber")
                       = Get(dicom[f].dcm_data, "AccessionNumber")

\* a tuple key comes before another: by series number, then by protocol name,
\* then by study UID
TupleBefore(a, b) ==
    IF a[1] # b[1] THEN a[1] < b[1]
    ELSE IF a[2] # b[2] THEN StrRank(a[2]) < StrRank(b[2])
    ELSE Len(a) > 2 /\ StrRank(a[3]) < StrRank(b[3])

\* C10: the series of the returned map are inserted in ascending order of their
\* tuple key (series number, protocol name, study UID when appended), whatever
\* the order of the files; so they are ascending inside every top-level bucket.
C10_SortedByTupleKey ==
    pc = "done" =>
        /\ \A i \in 1..Len(seqinfo) : \A j \in 1..Len(seqinfo) :
               i < j => TupleBefore(EntryKey(seqinfo[i]), EntryKey(seqinfo[j]))
        /\ \A n \in 1..Len(seqinfo) :
               LET b == Bucket(seqinfo, seqinfo[n].key)
               IN  \A i \in 1..Len(b) : \A j \in 1..Len(b) :
                       i < j => TupleBefore(SeriesKeyOf(b[i].info.series_id),
                                            SeriesKeyOf(b[j].info.series_id))

\* C10's case: a map of two series or more is returned whose first series is
\* of files given after the files of its second series.
C10_Witness ==
    /\ pc = "done"
    /\ Len(seqinfo) >= 2
    /\ \A f \in Listed(seqinfo[1]) : \A h \in Listed(seqinfo[2]) : f > h

\* the preconditions of C6: grouping disabled, records of a single study that
\* all have an image shape, matching exactly when their pairs are equal
OneStudyOfPairs ==
    /\ grouping = None
    /\ \A f \in DOMAIN dicom :
          /\ {"SeriesNumber", "ProtocolName", "StudyInstanceUID"}
                 \subseteq DOMAIN dicom[f].dcm_data
          /\ dicom[f].image_shape # NoShape
    /\ \A f \in DOMAIN dicom : \A h \in DOMAIN dicom :
          /\ dicom[f].dcm_data["StudyInstanceUID"] = dicom[h].dcm_data["StudyInstanceUID"]
          /\ f # h => (({f, h} \in same) <=> PairOf(f) = PairOf(h))

\* the input files of one pair, in input order
FilesOfPair(p) == SelectSeq(files, LAMBDA f : PairOf(f) = p)

\* what C6 says is returned: one entry per distinct pair, named
\* '<seriesNumber>-<protocolName>', listing the input files of the pair in
\* input order, the last entry counting all input files
OneEntryPerPair ==
    LET pairs == {PairOf(f) : f \in DOMAIN dicom}
    IN  /\ pc = "done"
        /\ Len(seqinfo) = Cardinality(pairs)
        /\ \A p \in pairs : \E i \in 1..Len(seqinfo) :
              /\ seqinfo[i].info.series_id = ToString(p[1]) \o "-" \o p[2]
              /\ seqinfo[i].files = FilesOfPair(p)
        /\ seqinfo # <<>> =>
              seqinfo[Len(seqinfo)].info.total_files_till_now = Len(files)

AllKept ==
    \A f \in DOMAIN dicom :
        /\ dicom[f].filter_files
        /\ ~dicom[f].filter_dicom
        /\ {"SOPClassUID", "ImageType", "SeriesDescription"}
               \subseteq DOMAIN dicom[f].dcm_data
        /\ dicom[f].dcm_data["SOPClassUID"] \notin NonImageStorage

Orderings(n) == {p \in [1..n -> 1..n] : \A i \in 1..n : \E j \in 1..n : p[j] = i}

\* the partition of the files into series that a returned map makes
Partition(entries) == {Listed(entries[i]) : i \in 1..Len(entries)}

\* the same-series predicate never holds between records of different true series
NeverAcrossSeries == \A pr \in same : \A f \in pr : \A h \in pr : TrueSeries(f) = TrueSeries(h)

\* C9: when the predicate never holds between records of different true
\* series, the calls on any two orderings of the files that both return a map
\* return the same partition of the files into series.
C9_OrderIndependent ==
    (NeverAcrossSeries /\ pc = "done") =>
        \A p \in Orderings(Len(files)) :
            LET r == group_dicoms_into_seqinfos(p)
            IN  r.err = NoError => Partition(r.entries) = Partition(seqinfo)

\* ------------------------------------------------ properties of the plan cache

\* the four files of the plan of the subject/session
PlanFiles == {edit_file, info_file, filegroup_file, dicominfo_file}

\* the file `name` is the same after the call as before it
Untouched(name) ==
    /\ name \in DOMAIN disk <=> name \in DOMAIN run.before
    /\ name \in DOMAIN disk => disk[name] = run.before[name]

\* a call has just ended that found an edit file when it started
EditFound == run.started /\ run.stage # "args" /\ edit_file \in DOMAIN run.before

\* a call has just ended that found no edit file when it started
NoEditFound == run.started /\ run.stage # "args" /\ edit_file \notin DOMAIN run.before

\* the call got as far as the conversion
PlanMade == run.stage \in {"convert", "end"}

\* the map of the current source records: the given one, or the grouped files
CurrentSeqinfo ==
    IF run.input.dicoms # <<>> THEN group_dicoms_into_seqinfos(run.input.dicoms).entries
    ELSE run.input.seqinfo

\* the plan the heuristic derives from the current source records
CurrentPlan ==
    infotodict(run.input.heuristic,
               [i \in 1..Len(CurrentSeqinfo) |-> CurrentSeqinfo[i].info])

\* the items of a dict, whatever their order
Items(d) == {d[i] : i \in 1..Len(d)}

\* C1: whenever the edit file exists when convert_dicoms starts, grouping and
\* infotodict are not invoked, the auto file is not read, and the plan and the
\* filegroup handed to the conversion are the content of the edit file and of
\* the filegroup file as they were when the call started.
C1_EditPlanOverrides ==
    EditFound =>
        /\ ~run.grouped /\ ~run.asked
        /\ info_file \notin run.read
        /\ PlanMade =>
              /\ run.before[edit_file].ok
              /\ run.info = run.before[edit_file].entries
              /\ filegroup_file \in DOMAIN run.before
              /\ run.filegroup = run.before[filegroup_file].entries
        /\ (run.stage = "end" /\ run.input.converter # "none") =>
              run.cinfo = conversion_info(sid, outdir \o "/" \o sid,
                              OfSeriesIds(run.before[edit_file].entries),
                              run.before[filegroup_file].entries,
                              [cinfo |-> <<>>, err |-> NoError]).cinfo

\* C1's case: a call that found an edit file the user had changed, differing
\* from the auto file and from the plan of the files it was now given, has
\* converted by the edit file.
C1_Witness ==
    /\ EditFound
    /\ pc = "returned"
    /\ run.cinfo # <<>>
    /\ info_file \in DOMAIN run.before
    /\ Items(run.before[edit_file].entries) # Items(run.before[info_file].entries)
    /\ Items(run.info) # Items(CurrentPlan)

\* C2: whenever no edit file exists when convert_dicoms starts and the records
\* are grouped without error, the heuristic is asked for the plan of the
\* current records, the auto file and the edit file are written with the same
\* content, which reads back as that plan, and the filegroup file is written
\* with the files of the same records.
C2_FreshPlanWritten ==
    (NoEditFound /\ PlanMade) =>
        /\ run.asked
        /\ Items(run.info) = Items(CurrentPlan)
        /\ {info_file, edit_file, filegroup_file} \subseteq DOMAIN disk
        /\ disk[info_file] = disk[edit_file]
        /\ read_config(disk[edit_file]).err = NoError
        /\ Items(read_config(disk[edit_file]).info) = Items(CurrentPlan)
        /\ Items(load_json(disk, filegroup_file).data) =
              {<<CurrentSeqinfo[i].info.series_id, CurrentSeqinfo[i].files>> :
                  i \in 1..Len(CurrentSeqinfo)}

\* C2's case: after the user deleted the edit file, a call given other files
\* than the call before wrote a plan of two keys that pformat reorders.
C2_Witness ==
    /\ NoEditFound /\ PlanMade
    /\ info_file \in DOMAIN run.before
    /\ disk[info_file] # run.before[info_file]
    /\ Len(run.info) = 2
    /\ disk[edit_file].entries # run.info
    /\ \A i \in 1..2 : run.info[i][2] # <<>>

\* C3: a call of convert_dicoms that finds an edit file when it starts leaves
\* the edit file, the auto file, the filegroup file and the dicominfo listing
\* as they were.
C3_EditPathWritesNothing ==
    EditFound => \A name \in PlanFiles : Untouched(name)

\* C3's case: a call that found an edit file whose items are not in the order
\* of pformat has converted by it.
C3_Witness ==
    /\ EditFound
    /\ pc = "returned"
    /\ run.cinfo # <<>>
    /\ run.before[edit_file] # write_config(run.before[edit_file].entries)

\* the edit file the call found cannot be parsed, or the filegroup file is missing
PlanUnreadable ==
    \/ ~run.before[edit_file].ok
    \/ filegroup_file \notin DOMAIN run.before

\* C20: a call of convert_dicoms that finds an edit file it cannot parse, or
\* an edit file without the filegroup file, raises while the plan is loaded:
\* nothing is converted, and the edit file, the auto file, the filegroup file
\* and the dicominfo listing are neither made nor changed.
C20_UnreadablePlanFailsCleanly ==
    (EditFound /\ PlanUnreadable) =>
        /\ pc = "raised"
        /\ run.err # NoError
        /\ run.stage = "plan"
        /\ run.cinfo = <<>>
        /\ run.wrote \cap PlanFiles = {}
        /\ \A name \in PlanFiles : name \in DOMAIN disk <=> name \in DOMAIN run.before
        /\ \A name \in PlanFiles \cap DOMAIN disk : disk[name] = run.before[name]

\* C20's case: a call has failed on an edit file that cannot be parsed, in a
\* directory where an earlier call left the other three files.
C20_Witness ==
    /\ EditFound
    /\ ~run.before[edit_file].ok
    /\ {info_file, filegroup_file, dicominfo_file} \subseteq DOMAIN run.before
    /\ run.err = "SyntaxError"
    /\ pc = "raised"

\* the case of the filegroup file: a call has failed on an edit file that can
\* be parsed and has no filegroup file beside it
MissingFilegroupCase ==
    /\ EditFound
    /\ run.before[edit_file].ok
    /\ filegroup_file \notin DOMAIN run.before
    /\ pc = "raised"

\* C4 (as claimed): after every call whose plan was made, also one that found
\* an edit file, the auto file holds the plan of the current source records.
C4_AutoRegeneratedEveryRun ==
    (run.started /\ run.stage # "args" /\ PlanMade
        /\ (run.input.dicoms # <<>> =>
               group_dicoms_into_seqinfos(run.input.dicoms).err = NoError)) =>
        /\ info_file \in DOMAIN disk
        /\ disk[info_file] = write_config(CurrentPlan)

\* C4 (amended): the auto file is rewritten, with the plan of the current
\* source records, by the calls that find no edit file when they start and
\* group the records without error; every other call leaves it as it was.
C4_AutoRegeneratedWithoutEdit ==
    run.started =>
        IF NoEditFound /\ PlanMade
        THEN info_file \in DOMAIN disk /\ disk[info_file] = write_config(CurrentPlan)
        ELSE Untouched(info_file)

\* C4's case: a call that found an edit file was given records whose plan is
\* not the one the auto file holds, and returned.
C4_Witness ==
    /\ EditFound
    /\ pc = "returned"
    /\ info_file \in DOMAIN disk
    /\ group_dicoms_into_seqinfos(run.input.dicoms).err = NoError
    /\ run.input.dicoms # <<>>
    /\ disk[info_file] # write_config(CurrentPlan)

\* ------------------------------------------- properties of the error handling

\* the list fl without its element at position i
Without(fl, i) == [n \in 1..(Len(fl) - 1) |-> IF n < i THEN fl[n] ELSE fl[n + 1]]

\* exactly one file of the input cannot be read, the file at position i
OnlyUnreadable(i) ==
    /\ i \in 1..Len(files)
    /\ \A n \in 1..Len(files) : dicom[files[n]].readable <=> n # i

\* C16: when one file of the input cannot be read and grouping the list
\* without it returns a map, the call on the whole list returns that map.
C16_UnreadableFileSkipped ==
    pc \in {"done", "raised"} =>
        \A i \in 1..Len(files) :
            LET r == group_dicoms_into_seqinfos(Without(files, i))
            IN  (OnlyUnreadable(i) /\ r.err = NoError) =>
                    (pc = "done" /\ Partition(seqinfo) = Partition(r.entries))

\* the record lacks exactly one descriptive field and is otherwise a kept image
LacksOneField(f) ==
    /\ dicom[f].readable /\ dicom[f].filter_files /\ ~dicom[f].filter_dicom
    /\ dicom[f].image_shape # NoShape
    /\ Cardinality(AllAttrs \ DOMAIN dicom[f].dcm_data) = 1
    /\ (AllAttrs \ DOMAIN dicom[f].dcm_data) \subseteq DescriptiveFields

\* C17: a call on files of one series whose records each lack one descriptive
\* field raises nothing and returns an entry for the series.
C17_MissingFieldGetsSentinel ==
    (/\ pc \in {"done", "raised"}
     /\ files # <<>>
     /\ \A f \in DOMAIN dicom : LacksOneField(f)
     /\ same = Pairs(Len(files))) =>
        /\ pc = "done"
        /\ Len(seqinfo) = 1
        /\ seqinfo[1].info.series_id = "2-T1w"

\* the record holds a series number and a protocol name and no study UID, and
\* is otherwise a kept image
NoStudyUID(f) ==
    /\ dicom[f].readable /\ dicom[f].filter_files /\ ~dicom[f].filter_dicom
    /\ dicom[f].image_shape # NoShape
    /\ AllAttrs \ DOMAIN dicom[f].dcm_data = {"StudyInstanceUID"}

\* C18: when the grouping mode is not studyUID, a file whose record holds a
\* series number and a protocol name and no study UID is listed in the map
\* that is returned, under '<seriesNumber>-<protocolName>'.
C18_NoStudyUIDStillGrouped ==
    (pc = "done" /\ grouping # "studyUID") =>
        \A f \in DOMAIN dicom :
            NoStudyUID(f) =>
                \E i \in 1..Len(seqinfo) :
                    /\ f \in Listed(seqinfo[i])
                    /\ seqinfo[i].info.series_id = SeriesIdStr(PairOf(f))

\* ---------------------------------------- properties of the study sessions

ScanDriven == args.dicom_dir_template = None /\ args.files_opt # {} /\ args.sids = <<>>

TemplateDriven ==
    args.dicom_dir_template = "{subject}" /\ args.files_opt = {} /\ args.sids # <<>>

\* the study clusters of a scan-driven call, in the order of the grouping
StudyClusters ==
    LET ex == get_extracted_dicoms(args.files_opt, NoIO)
        paths == Concat(ex.sessions)
        entries == group_dicoms_into_seqinfos(
                       [i \in 1..Len(paths) |-> ReadAt(ex.io.tmp, paths[i])]).entries
        keys == OuterKeys(entries)
    IN  [i \in 1..Len(keys) |-> Bucket(entries, keys[i])]

\* the (locator, session, subject) a cluster resolves to
ResolvesTo(cluster) ==
    LET ids == infotoids(args.heuristic, cluster)
        ids_session == IF "session" \in DOMAIN ids THEN ids.session ELSE args.session
    IN  <<IF "locator" \in DOMAIN ids THEN ids.locator ELSE None,
          IF Truthy(ids_session) THEN ids_session ELSE args.session,
          IF "subject" \in DOMAIN ids THEN ids.subject ELSE None>>

\* C11: a scan-driven call that returns has mapped the key of every study
\* cluster to the first cluster that resolves to it, and has warned once for
\* every other cluster and dropped it.
C11_FirstClusterKeepsKey ==
    (ScanDriven /\ batch.stage = "resolved") =>
        LET cs == StudyClusters
            ss == batch.study_sessions
        IN  /\ \A i \in 1..Len(cs) :
                  /\ HasKey(ss, ResolvesTo(cs[i]))
                  /\ \E j \in 1..i :
                        /\ ResolvesTo(cs[j]) = ResolvesTo(cs[i])
                        /\ \A n \in 1..(j - 1) : ResolvesTo(cs[n]) # ResolvesTo(cs[i])
                        /\ Lookup(ss, ResolvesTo(cs[i])) = cs[j]
            /\ \A i \in 1..Len(ss) : \A j \in 1..Len(ss) : ss[i][1] = ss[j][1] => i = j
            /\ \A i \in 1..Len(ss) : \E n \in 1..Len(cs) : ss[i][1] = ResolvesTo(cs[n])
            /\ batch.io.warnings = Len(cs) - Len(ss)

\* C11's case: of three study clusters the second resolves to the key of the
\* first and is dropped, and the third is registered after it.
C11_Witness ==
    /\ ScanDriven /\ batch.stage = "resolved"
    /\ Len(StudyClusters) = 3
    /\ ResolvesTo(StudyClusters[2]) = ResolvesTo(StudyClusters[1])
    /\ ResolvesTo(StudyClusters[3]) # ResolvesTo(StudyClusters[1])
    /\ Len(batch.study_sessions) = 2
    /\ batch.io.warnings = 1

\* the tarballs the template matches for a subject, in the order of their paths
BundlesOf(subject) ==
    SelectSeq(SortedSeq(args.matches[subject]), LAMBDA t : SourceFiles[t].tar)

OnlyBundles(subject) == \A t \in args.matches[subject] : SourceFiles[t].tar

\* the files listed are the files of the tarball t: its members, each holding
\* what the tarball holds under that name
FilesOfBundle(listed, t) ==
    LET members == SourceFiles[t].members
    IN  /\ Len(listed) = Len(members)
        /\ \A i \in 1..Len(members) :
              /\ listed[i][2] = members[i].name
              /\ listed[i] \in DOMAIN batch.io.tmp
              /\ batch.io.tmp[listed[i]] = members[i].rec

\* the keys registered for a subject
KeysOf(subject) ==
    {batch.study_sessions[i][1] : i \in 1..Len(batch.study_sessions)}
        \cap {<<None, s, subject>> :
                 s \in SessionsGiven \cup {BundleSession(i) : i \in 0..Len(SourceFiles)}}

\* C12: in a template-driven call without a session, a subject whose template
\* matches N >= 2 tarballs and nothing else has the keys (None, i, subject),
\* i = 0..N-1, each mapped to the files of the i-th tarball; one whose template
\* matches one tarball has the one key (None, None, subject).
C12_OneKeyPerBundle ==
    (TemplateDriven /\ args.session = NoSession /\ batch.stage = "resolved") =>
        \A n \in 1..Len(args.sids) :
            LET subject == args.sids[n]
                bundles == BundlesOf(subject)
            IN  (OnlyBundles(subject) /\ bundles # <<>>
                 /\ \A m \in 1..Len(args.sids) : args.sids[m] = subject => m = n) =>
                    IF Len(bundles) = 1
                    THEN /\ KeysOf(subject) = {<<None, NoSession, subject>>}
                         /\ FilesOfBundle(Lookup(batch.study_sessions,
                                                 <<None, NoSession, subject>>), bundles[1])
                    ELSE /\ KeysOf(subject) =
                               {<<None, BundleSession(i), subject>> : i \in 0..(Len(bundles) - 1)}
                         /\ \A i \in 1..Len(bundles) :
                               FilesOfBundle(Lookup(batch.study_sessions,
                                                    <<None, BundleSession(i - 1), subject>>),
                                             bundles[i])

\* C13 (as claimed): in a template-driven call with a session supplied, every
\* key that is registered carries the supplied session.
C13_GivenSessionInEveryKey ==
    (TemplateDriven /\ Truthy(args.session) /\ batch.stage = "resolved") =>
        \A i \in 1..Len(batch.study_sessions) :
            batch.study_sessions[i][1][2] = args.session

\* C13 (amended): in a template-driven call with a session supplied, the keys
\* of a subject whose template matches two tarballs or more carry the numbers
\* of the tarballs, with a warning for each, and only the key of the other
\* files, if any, carries the supplied session; the one key of a subject whose
\* template matches one tarball at most carries the supplied session.
C13_GivenSessionUnlessBundles ==
    (TemplateDriven /\ Truthy(args.session) /\ batch.stage = "resolved") =>
        /\ \A n \in 1..Len(args.sids) :
              LET subject == args.sids[n]
                  bundles == BundlesOf(subject)
                  others == {t \in args.matches[subject] : ~SourceFiles[t].tar}
              IN  KeysOf(subject) =
                      (IF Len(bundles) >= 2
                       THEN {<<None, BundleSession(i), subject>> : i \in 0..(Len(bundles) - 1)}
                            \cup (IF others = {} THEN {} ELSE {<<None, args.session, subject>>})
                       ELSE IF args.matches[subject] = {} THEN {}
                       ELSE {<<None, args.session, subject>>})
        /\ \A i \in 1..Len(batch.study_sessions) :
              \E n \in 1..Len(args.sids) : batch.study_sessions[i][1][3] = args.sids[n]

\* C13's case: with a session supplied, one subject has two tarballs and the
\* keys 0 and 1, another has one tarball and the supplied session.
C13_Witness ==
    /\ TemplateDriven /\ Truthy(args.session) /\ batch.stage = "resolved"
    /\ Len(args.sids) = 2
    /\ Len(BundlesOf(args.sids[1])) = 2
    /\ Len(BundlesOf(args.sids[2])) = 1
    /\ <<None, BundleSession(1), args.sids[1]>> \in KeysOf(args.sids[1])
    /\ KeysOf(args.sids[2]) = {<<None, args.session, args.sids[2]>>}
    /\ batch.io.warnings = 2

\* no temporary directory was made, no tarball extracted, no file filtered or read
NoInputRead ==
    /\ batch.io.dirs = <<>>
    /\ batch.io.extracted = <<>>
    /\ batch.io.filtered = <<>>
    /\ batch.io.read = <<>>

\* C14: a scan-driven call with a heuristic that has no infotoids raises
\* NotImplementedError before any tarball is extracted and any file is read,
\* and returns no study session.
C14_MissingInfotoidsRejectedFirst ==
    (ScanDriven /\ args.heuristic = "no_infotoids" /\ batch.stage # "idle") =>
        /\ batch.stage = "raised"
        /\ batch.err = "NotImplementedError"
        /\ batch.study_sessions = <<>>
        /\ NoInputRead

\* C15: a call with a grouping that is not allowed raises ValueError before
\* any file is read or filtered, any tarball extracted and any temporary
\* directory made: group_dicoms_into_seqinfos called directly, and reached
\* through a scan-driven get_study_sessions.
C15_BadGroupingRejectedFirst ==
    grouping \notin allowed_groupings =>
        /\ pc \in {"done", "raised"} =>
              (pc = "raised" /\ loop.err = "ValueError" /\ loop.fidx = 0)
        /\ (ScanDriven /\ batch.stage # "idle") =>
              (batch.stage = "raised" /\ batch.err = "ValueError" /\ NoInputRead)

\* ------------------------------------------------------ properties of the batch

\* the errors of one study session: a placeholder of its plan nothing fills,
\* an edit file that cannot be parsed, an edit file without its filegroup file
PerUnitErrors == {"KeyError", "SyntaxError", "IOError"}

\* C19: when convert_dicoms has failed for one study session of a batch with
\* an error of that study session, the batch has converted, or goes on to
\* convert, every other study session: once it has ended, every study session
\* but the failed one is converted.
C19_OtherUnitsStillProcessed ==
    (batch.stage = "failed" /\ batch.err \in PerUnitErrors) =>
        \A i \in 1..Len(batch.study_sessions) :
            i # batch.unit => \E n \in 1..Len(batch.converted) : batch.converted[n] = i

\* ------------------------------------------------ properties of the clusters

\* the files the loop has taken up
Taken == {loop.kept[p] : p \in 1..(loop.fidx - 1)}

\* the positions of the bookkeeping lists that name the cluster r
EntriesOf(r) == {i \in 1..Len(loop.groups1) : loop.groups1[i] = r}

\* the loop over the files is over, and nothing was raised
LoopOver == pc = "done" \/ (pc = "loop" /\ loop.fidx > Len(loop.kept))

\* C23: at the end of the loop every series key names one cluster, and every
\* file the returned map lists under a key is of the same series as the
\* representative the key is described by.
C23_OneClusterPerKey ==
    /\ LoopOver =>
          \A i \in 1..Len(loop.groups0) : \A j \in 1..Len(loop.groups0) :
              loop.groups0[i] = loop.groups0[j] => loop.groups1[i] = loop.groups1[j]
    /\ pc = "done" =>
          \A n \in 1..Len(seqinfo) : \A f \in Listed(seqinfo[n]) :
              is_same_series(f, loop.mwgroup[GroupMap(loop, EntryKey(seqinfo[n]))])

\* the record holds no series number or no protocol name
NoIdentity(f) ==
    ~({"SeriesNumber", "ProtocolName"} \subseteq DOMAIN dicom[f].dcm_data)

\* C24: a record without series number or protocol name that the loop has
\* taken up is the representative of a cluster that has one entry, its own,
\* with a negative key; and the loop never raises on such a record.
C24_NoIdentityIsSingleton ==
    /\ pc \in {"loop", "done"} =>
          \A f \in Taken : NoIdentity(f) =>
              \E r \in 1..Len(loop.mwgroup) :
                  /\ loop.mwgroup[r] = f
                  /\ Cardinality(EntriesOf(r)) = 1
                  /\ \A i \in EntriesOf(r) : loop.groups0[i][1] < 0
    /\ (pc = "raised" /\ loop.fidx > 1 /\ loop.fidx <= Len(loop.kept) + 1
        /\ loop.err \in {"AssertionError", "AttributeError"}) =>
          ~NoIdentity(loop.kept[loop.fidx - 1])

\* the key the representative of the cluster r was given
KeyOfCluster(r) ==
    loop.groups0[CHOOSE i \in EntriesOf(r) : \A j \in EntriesOf(r) : i <= j]

\* the files the code takes for the cluster r: the files at its positions
FilesOfCluster(r) == {loop.kept[i] : i \in EntriesOf(r) \cap (1..Len(loop.kept))}

\* C25: in the returned map no key and no file is of a cluster whose
\* representative has no image shape, and every cluster whose representative
\* has an image shape and a key that is not negative has its key.
C25_ShapelessClustersDropped ==
    pc = "done" =>
        \A r \in 1..Len(loop.mwgroup) :
            IF dicom[loop.mwgroup[r]].image_shape = NoShape
            THEN \A n \in 1..Len(seqinfo) :
                    /\ \A i \in EntriesOf(r) : EntryKey(seqinfo[n]) # loop.groups0[i]
                    /\ Listed(seqinfo[n]) \cap FilesOfCluster(r) = {}
            ELSE KeyOfCluster(r)[1] >= 0 =>
                    \E n \in 1..Len(seqinfo) : EntryKey(seqinfo[n]) = KeyOfCluster(r)

\* C26: every file the loop has taken up has one entry in the lists of keys
\* and clusters, so the i-th key is the key of the i-th file, and a file the
\* returned map lists under a key is of the series of a representative with
\* that key.
C26_OneEntryPerFile ==
    /\ pc \in {"loop", "done"} =>
          /\ Len(loop.groups0) = loop.fidx - 1
          /\ Len(loop.groups1) = loop.fidx - 1
    /\ pc = "done" =>
          \A n \in 1..Len(seqinfo) : \A f \in Listed(seqinfo[n]) :
              \E i \in 1..Len(loop.groups0) :
                  /\ loop.groups0[i] = EntryKey(seqinfo[n])
                  /\ is_same_series(f, loop.mwgroup[loop.groups1[i]])

\* the record holds a series number, a protocol name and a study UID
Identifiable(f) ==
    {"SeriesNumber", "ProtocolName", "StudyInstanceUID"} \subseteq DOMAIN dicom[f].dcm_data

\* the files taken up before the last one
TakenBefore == {loop.kept[p] : p \in 1..(loop.fidx - 2)}

\* the last file taken up is identifiable and of another study than an
\* identifiable file before it
OtherStudyTaken ==
    /\ loop.fidx > 1
    /\ loop.fidx <= Len(loop.kept) + 1
    /\ Identifiable(loop.kept[loop.fidx - 1])
    /\ \E h \in TakenBefore :
          /\ Identifiable(h)
          /\ dicom[h].dcm_data["StudyInstanceUID"]
                 # dicom[loop.kept[loop.fidx - 1]].dcm_data["StudyInstanceUID"]

\* C29: the loop never raises AssertionError where a record matches a
\* representative: an AssertionError is the one of the check for a single
\* study, with grouping disabled.
C29_MatchAssertionNeverFails ==
    (pc = "raised" /\ loop.err = "AssertionError") =>
        (grouping = None /\ OtherStudyTaken)

\* C30: with grouping disabled the loop goes on only while the identifiable
\* records it has taken up are of one study, and raises AssertionError,
\* returning no map, on the first identifiable record of another study; with
\* grouping by studyUID or accession_number an AssertionError is never the one
\* of that check, but of a record that matches a representative of another
\* study UID.
C30_DisabledGroupingSingleStudy ==
    /\ (grouping = None /\ pc \in {"loop", "done"}) =>
          \A f \in Taken : \A h \in Taken :
              (Identifiable(f) /\ Identifiable(h)) =>
                  dicom[f].dcm_data["StudyInstanceUID"] = dicom[h].dcm_data["StudyInstanceUID"]
    /\ (grouping = None /\ pc = "raised" /\ OtherStudyTaken) =>
          (loop.err = "AssertionError" /\ seqinfo = <<>>)
    /\ (grouping \in {"studyUID", "accession_number"} /\ pc = "raised"
        /\ loop.err = "AssertionError") =>
          \E r \in 1..Len(loop.mwgroup) :
              /\ is_same_series(loop.kept[loop.fidx - 1], loop.mwgroup[r])
              /\ Get(dicom[loop.mwgroup[r]].dcm_data, "StudyInstanceUID")
                     # (IF Identifiable(loop.kept[loop.fidx - 1])
                        THEN dicom[loop.kept[loop.fidx - 1]].dcm_data["StudyInstanceUID"]
                        ELSE None)

\* C30's case: with grouping disabled the third record, the second that is
\* identifiable, is of another study than the first, matches nothing, and the
\* call has raised AssertionError.
C30_Witness ==
    /\ grouping = None
    /\ pc = "raised"
    /\ loop.err = "AssertionError"
    /\ loop.fidx = 4
    /\ same = {}
    /\ ~Identifiable(loop.kept[1])
    /\ Identifiable(loop.kept[2])
    /\ OtherStudyTaken

\* the other case of C30: grouping by studyUID, a map of two studies is returned
TwoStudiesAccepted ==
    /\ per_studyUID
    /\ pc = "done"
    /\ \E i \in 1..Len(seqinfo) : \E j \in 1..Len(seqinfo) : seqinfo[i].key # seqinfo[j].key

\* ------------------------------------------------- properties of the conversion

\* the series items of the list `items` from position idx on, each with the
\* position of its group and its position in its group
RECURSIVE SeriesItems(_, _)
SeriesItems(items, idx) ==
    IF idx > Len(items) THEN <<>>
    ELSE (IF items[idx].kind = "list"
          THEN [n \in 1..Len(items[idx].group) |->
                   [group |-> idx, place |-> n, of |-> items[idx].group[n]]]
          ELSE <<[group |-> idx, place |-> 1, of |-> items[idx]]>>)
         \o SeriesItems(items, idx + 1)

\* the series items of a plan in the order of the plan, each with its key
RECURSIVE PlanSeriesItems(_)
PlanSeriesItems(info) ==
    IF info = <<>> THEN <<>>
    ELSE LET here == SeriesItems(Head(info)[2], 1)
         IN  [n \in 1..Len(here) |->
                 [key |-> Head(info)[1], group |-> here[n].group,
                  place |-> here[n].place, of |-> here[n].of]]
             \o PlanSeriesItems(Tail(info))

\* the output path of a series item: the template of its key filled with its
\* own parameters and with item, subindex, subject and seqitem
PathOf(it) ==
    outdir \o "/" \o
    Format(it.key[1],
           [item |-> it.group, subindex |-> it.place, subject |-> sid,
            seqitem |-> it.of.item, session |-> "ses-None"] @@ it.of.parameters).text

\* C22: a call of conversion_info that returns has made one tuple for every
\* series item of the plan, in the order of the plan: the path is made with
\* `item` the position of the item's group in the list of its key and
\* `subindex` the position of the item in its group (1 when it is in no
\* group), the type is the one of the key, the files are the filegroup entry
\* of the item; a key with an empty list gives no tuple.
C22_OneTuplePerSeriesItem ==
    (args.given /\ run.started /\ run.err = NoError) =>
        LET its == PlanSeriesItems(args.info)
        IN  /\ Len(run.cinfo) = Len(its)
            /\ \A n \in 1..Len(its) :
                  /\ run.cinfo[n][1] = PathOf(its[n])
                  /\ run.cinfo[n][2] = its[n].key[2]
                  /\ run.cinfo[n][3] = Lookup(args.filegroup, its[n].of.item)

\* C22's case: the plan has a key with an empty list, then the numbered key
\* with a series id and a group of two; three tuples are returned, the last
\* with item 2 and subindex 2.
C22_Witness ==
    /\ args.given /\ run.started /\ run.err = NoError
    /\ Len(args.info) = 2
    /\ args.info[1] = <<t1w, <<>>>>
    /\ args.info[2] = <<numbered, <<Series("10-BOLD"),
                                    ItemGroup(<<Series("2-T1w"), Series("10-BOLD")>>)>>>>
    /\ Len(run.cinfo) = 3
    /\ run.cinfo[3] = <<"out/run2_2_10-BOLD", "nii.gz", <<2, 3>>>>

\* ------------------------------------------ properties of interrupted calls

\* C27: whatever calls of convert_dicoms have run for the subject/session,
\* also calls that ended between two of their writes or in one, an edit file
\* that exists has its filegroup file beside it, and a call that finds an
\* edit file never fails for a filegroup file that is missing.
C27_EditFileHasFilegroup ==
    /\ edit_file \in DOMAIN disk => filegroup_file \in DOMAIN disk
    /\ (run.started /\ run.stage # "args" /\ edit_file \in DOMAIN run.before) =>
          run.err # "IOError"

\* C27's case: a call has ended in the write of the edit file, after the
\* three other files were written.
C27_Witness ==
    /\ run.started
    /\ run.err = "Interrupted"
    /\ edit_file \notin DOMAIN run.before
    /\ edit_file \in DOMAIN disk
    /\ disk[edit_file] = Garbled
    /\ {filegroup_file, dicominfo_file, info_file} \subseteq DOMAIN disk

\* -------------------------------------------------- properties of the paths

\* C28: two study sessions of different (locator, session, subject) keys,
\* under one output directory and the same options, have different edit files
\* and different filegroup files, also in BIDS mode.
C28_PlanFilesNeverShared ==
    (args.given /\ run.started) =>
        /\ run.first.edit # run.second.edit
        /\ run.first.filegroup # run.second.filegroup

\* ---------------------------------------- properties of scratch directories

\* C21: every scratch directory that exists is in the registry of tempdirs,
\* and after tempdirs.cleanup() no scratch directory exists.
C21_ScratchDirsRegistered ==
    (pc \in {"main", "convert", "raised", "done"}) =>
        /\ disk \subseteq Elements(run.dirs)
        /\ pc = "done" => disk = {}

====
